---- MODULE Spec2Model ----
(***************************************************************************)
(* A model of findblas.find_blas (src/findblas/__init__.py): the search    *)
(* for a BLAS library over an ordered list of candidate directories, the   *)
(* classification of generically named binaries by their symbol table,     *)
(* and the header resolution that follows.                                 *)
(*                                                                         *)
(* Strings of the program (file names, directories, symbols) are modelled  *)
(* as sequences of tokens, so that concatenation, splitting on "." and     *)
(* the regular-expression tests of the code are computed, not assumed:     *)
(* "libopenblas.so" is <<"lib", "open", "blas", ".", "so">>.               *)
(***************************************************************************)
EXTENDS Integers, Sequences, FiniteSets, TLC

VARIABLES
    platform,                \* sys.platform
    allow_unidentified_blas, \* argument of find_blas
    fs,                      \* the files that exist: a set of full paths
    pc,                      \* position of find_blas in its body
    blas_path, blas_file,    \* locals of find_blas
    flags_found,             \* local of find_blas: the list of flags
    searched,                \* history: the search_blas_lib calls made, in order
    inspected,               \* history: the _find_symbols calls made, in order
    cand, ci,                \* name-pattern scan: candidate (path, file) list, loop index
    prompts,                 \* history: the files input() was called for, with the answer
    np_env,                  \* what the last-resort numpy/scipy imports met
    incl_path, incl_file,    \* locals of find_blas
    hdr_env,                 \* the header files met by header resolution
    raised,                  \* the exception find_blas propagated, if any
    call, ret                \* a helper function called on its own: its arguments, its result

vars == <<platform, allow_unidentified_blas, fs, pc,
          blas_path, blas_file, flags_found, searched, inspected,
          cand, ci, prompts, np_env, incl_path, incl_file, hdr_env, raised,
          call, ret>>

----------------------------------------------------------------------------
(* Bounds of the model *)

\* at most this many files exist in the candidate directories
MaxFiles == 2

----------------------------------------------------------------------------
(* Strings as token sequences *)

\* Python's None, for a path or a file name (no real one is empty)
None == <<>>

Min(S) == CHOOSE x \in S : \A y \in S : x <= y

EndsWith(s, suf) ==
    /\ Len(s) >= Len(suf)
    /\ SubSeq(s, Len(s) - Len(suf) + 1, Len(s)) = suf

\* re.search(pat, s) for a literal pattern: pat occurs in s
HasSub(s, pat) ==
    \E i \in 1..(Len(s) - Len(pat) + 1) : SubSeq(s, i, i + Len(pat) - 1) = pat

\* str.split("."): the segments of s between its "." tokens
RECURSIVE SplitDot(_)
SplitDot(s) ==
    LET D == {i \in 1..Len(s) : s[i] = "."}
    IN  IF D = {} THEN <<s>>
        ELSE <<SubSeq(s, 1, Min(D) - 1)>> \o SplitDot(SubSeq(s, Min(D) + 1, Len(s)))

\* os.path.join(pt, name) for a relative name
join(pt, name) ==
    IF pt = <<>> THEN name
    ELSE IF pt[Len(pt)] = "/" THEN pt \o name
    ELSE pt \o <<"/">> \o name

\* os.path.exists
exists(p) == p \in fs

----------------------------------------------------------------------------
(* Platform-dependent prefix and extensions, find_blas lines 79-87 *)

platform3 ==
    CASE platform = "win32"  -> "win"
      [] platform = "darwin" -> "dar"
      [] OTHER               -> "lin"

\* lines 79-87, for platform[:3] = p3
ext_on(p3) ==
    CASE p3 = "win" -> << <<".", "lib">>, <<".", "dll">>, <<".", "dll", ".", "a">>, <<".", "a">> >>
      [] p3 = "dar" -> << <<".", "dylib">>, <<".", "a">> >>
      [] OTHER      -> << <<".", "so">>, <<".", "a">> >>

\* a prefix that forgets Windows
pref_on_lib_always(p3) == <<"lib">>

pref_on(p3) == IF p3 = "win" THEN <<>> ELSE <<"lib">>

ext == ext_on(platform3)
pref == pref_on(platform3)

\* a process_fnames1 without the special case of the versioned names
process_fnames1_on_appending(p3, lst, pr, e) ==
    [i \in 1..Len(lst) |-> pr \o lst[i] \o e]

\* process_fnames1 with the global it reads, platform[:3], as p3
process_fnames1_on(p3, lst, pr, e) ==
    [i \in 1..Len(lst) |->
        LET nm  == lst[i]
            tmp == SplitDot(nm)
        IN  IF Len(tmp) = 2 /\ p3 \notin {"win", "dar"}
            THEN pr \o tmp[1] \o e \o <<".">> \o tmp[2]
            ELSE pr \o nm \o e]

process_fnames1(lst, pr, e) == process_fnames1_on(platform3, lst, pr, e)

add_windows_fnames1(p3, lst) == [i \in 1..Len(lst) |-> lst[i] \o ext_on(p3)[3]]

mkl_base == << <<"mkl_rt">>, <<"mkl_rt", ".", "2">>, <<"mkl_rt", ".", "1">> >>
openblas_base == << <<"open", "blas">>, <<"open", "blas", "64">>,
                    <<"open", "blas", "64", "_">> >>
blis_base == << <<"blis">>, <<"blis", "-mt">> >>
atlas_base == << <<"atlas">>, <<"t", "atlas">>, <<"s", "atlas">> >>
gsl_base == << <<"gsl", "c", "blas">> >>

\* lines 91-108: the ten name lists, for platform[:3] = p3
file_names_on(p3) ==
    LET pr == pref_on(p3)
        e  == ext_on(p3)
        win(lst) == IF p3 = "win" THEN add_windows_fnames1(p3, lst) ELSE <<>>
    IN  [mkl1 |-> process_fnames1_on(p3, mkl_base, pr, e[1]),
         openblas1 |-> process_fnames1_on(p3, openblas_base, pr, e[1])
                       \o win(<< <<"lib", "open", "blas">>, <<"lib", "open", "blas">> >>),
         blis1 |-> process_fnames1_on(p3, blis_base, pr, e[1])
                   \o win(<< <<"lib", "blis">>, <<"lib", "blis", "-mt">> >>),
         atlas1 |-> process_fnames1_on(p3, atlas_base, pr, e[1])
                    \o win(<< <<"lib", "atlas">>, <<"lib", "atlas">> >>),
         gsl1 |-> process_fnames1_on(p3, gsl_base, pr, e[1])
                  \o win(<< <<"lib", "gsl", "c", "blas">>, <<"lib", "gsl", "c", "blas">> >>),
         mkl2 |-> process_fnames1_on(p3, mkl_base, pr, e[2]),
         openblas2 |-> process_fnames1_on(p3, << <<"open", "blas">> >>, pr, e[2]),
         blis2 |-> process_fnames1_on(p3, blis_base, pr, e[2]),
         atlas2 |-> process_fnames1_on(p3, atlas_base, pr, e[2]),
         gsl2 |-> process_fnames1_on(p3, gsl_base, pr, e[2])]

\* the lists of every platform (a constant, so computed once)
FileNames == [p3 \in {"win", "dar", "lin"} |-> file_names_on(p3)]

mkl_file_names1 == FileNames[platform3].mkl1
openblas_file_names1 == FileNames[platform3].openblas1
blis_file_names1 == FileNames[platform3].blis1
atlas_file_names1 == FileNames[platform3].atlas1
gsl_file_names1 == FileNames[platform3].gsl1
mkl_file_names2 == FileNames[platform3].mkl2
openblas_file_names2 == FileNames[platform3].openblas2
blis_file_names2 == FileNames[platform3].blis2
atlas_file_names2 == FileNames[platform3].atlas2
gsl_file_names2 == FileNames[platform3].gsl2

openblas_suff == << <<"open", "blas">>, <<"open", "blas", "-openmp">>,
                    <<"open", "blas", "-pthread">>, <<"open", "blas", "-serial">> >>
blis_suff == << <<"blis">>, <<"blis", "-openmp">>, <<"blis", "-pthread">>,
                <<"blis", "-serial">> >>

----------------------------------------------------------------------------
(* The deduplicated candidate directories, find_blas line 852.  One has no *)
(* trailing separator and one has.                                         *)

usr_lib == <<"/", "usr", "/", "lib">>
opt_lib == <<"/", "opt", "/", "lib", "/">>

search_paths == <<usr_lib, opt_lib>>

----------------------------------------------------------------------------
(* search_blas_lib, find_blas lines 859-877.  suff = <<>> stands for None: *)
(* no path is added.                                                       *)

\* lines 860-864: search_paths + [pt + s for pt in search_paths] for each s
with_suff(paths, suff) ==
    LET n == Len(paths)
    IN  [k \in 1..(n * (Len(suff) + 1)) |->
            IF k <= n THEN paths[k]
            ELSE paths[((k - 1) % n) + 1] \o suff[(k - 1) \div n]]

\* lines 870-874: the first path holding the name (0: none)
first_path(paths, name) ==
    LET I == {i \in 1..Len(paths) : exists(join(paths[i], name))}
    IN  IF I = {} THEN 0 ELSE Min(I)

\* the two loops exchanged: for each path, each name
search_blas_lib_paths_first(paths0, blas_names, suff) ==
    LET paths == with_suff(paths0, suff)
        H == {h \in (1..Len(paths)) \X (1..Len(blas_names)) :
                exists(join(paths[h[1]], blas_names[h[2]]))}
    IN  IF H = {} THEN <<None, None>>
        ELSE LET h == CHOOSE x \in H :
                        \A y \in H : x[1] < y[1] \/ (x[1] = y[1] /\ x[2] <= y[2])
             IN  <<paths[h[1]], blas_names[h[2]]>>

search_blas_lib(paths0, blas_names, suff) ==
    LET paths == with_suff(paths0, suff)
        J == {j \in 1..Len(blas_names) : first_path(paths, blas_names[j]) # 0}
    IN  IF J = {} THEN <<None, None>>
        ELSE <<paths[first_path(paths, blas_names[Min(J)])], blas_names[Min(J)]>>

----------------------------------------------------------------------------
(* _find_symbols, lines 1208-1270.  A binary is what the two strategies    *)
(* meet: whether the structured ELF reading raises (pyelftools missing,    *)
(* not an ELF file, no .symtab section), whether the readelf subprocess    *)
(* raises, and the symbol names in the order of the dump.                  *)

sym_openblas == <<"open", "blas", "_get_config">>
sym_blis == <<"bli_axpyd">>
sym_mkl == <<"mkl_dcsrgemv">>
sym_ddot_ == <<"ddot", "_">>
sym_cblas_ddot == <<"c", "blas", "_", "ddot">>
sym_ddot == <<"ddot">>
sym_DDOT == <<"DDOT">>
\* not a fingerprint, but its name holds 'openblas'
sym_goto == <<"goto_", "open", "blas", "_init">>
sym_other == <<"printf">>

\* flags = None (a list of flags is never this)
NoFlags == <<"None">>

\* tokens that begin with a lower-case letter (the class [a-z])
LowerTokens == {"open", "blas", "c", "ddot", "bli_axpyd", "mkl_dcsrgemv", "goto_",
                "printf", "sub"}

\* str(symbols).split(): under Python 3, str() of the bytes output writes each
\* line end as the two characters backslash, n, which stay glued to the name
dump_words(syms) == [i \in 1..Len(syms) |-> syms[i] \o <<"\\n">>]

\* re.search(r"ddot_[^a-z]", s)
has_ddot_underscore(s) ==
    \E i \in 1..(Len(s) - 2) :
        s[i] = "ddot" /\ s[i + 1] = "_" /\ s[i + 2] \notin LowerTokens

\* a structured reading that never looks for cblas_ddot once ddot_ is there
elf_symbols_no_cblas_test(syms) ==
    LET has(nm) == \E i \in 1..Len(syms) : syms[i] = nm
    IN  IF has(sym_openblas) THEN <<TRUE, <<"HAS_OPENBLAS", "HAS_UNDERSCORES">> >>
        ELSE IF has(sym_blis) THEN <<TRUE, <<"HAS_BLIS", "HAS_UNDERSCORES">> >>
        ELSE IF has(sym_mkl) THEN <<TRUE, <<"HAS_MKL">> >>
        ELSE IF has(sym_ddot_) THEN <<TRUE, <<"HAS_UNDERSCORES", "NO_CBLAS">> >>
        ELSE IF has(sym_cblas_ddot) THEN <<TRUE, <<>> >>
        ELSE IF has(sym_ddot) \/ has(sym_DDOT) THEN <<TRUE, <<"NO_CBLAS">> >>
        ELSE <<TRUE, NoFlags>>

\* lines 1215-1232, symtab.get_symbol_by_name on the symbol table
elf_symbols(syms) ==
    LET has(nm) == \E i \in 1..Len(syms) : syms[i] = nm
    IN  IF has(sym_openblas) THEN <<TRUE, <<"HAS_OPENBLAS", "HAS_UNDERSCORES">> >>
        ELSE IF has(sym_blis) THEN <<TRUE, <<"HAS_BLIS", "HAS_UNDERSCORES">> >>
        ELSE IF has(sym_mkl) THEN <<TRUE, <<"HAS_MKL">> >>
        ELSE IF has(sym_ddot_)
             THEN <<TRUE, <<"HAS_UNDERSCORES">>
                          \o (IF ~has(sym_cblas_ddot) THEN <<"NO_CBLAS">> ELSE <<>>)>>
        ELSE IF has(sym_cblas_ddot) THEN <<TRUE, <<>> >>
        ELSE IF has(sym_ddot) \/ has(sym_DDOT) THEN <<TRUE, <<"NO_CBLAS">> >>
        ELSE <<TRUE, NoFlags>>

\* lines 1241-1268, the scan of the words of the readelf dump
readelf_symbols(syms) ==
    LET w == dump_words(syms)
        vendor(s) == \/ HasSub(s, <<"open", "blas">>)
                     \/ HasSub(s, sym_blis)
                     \/ HasSub(s, sym_mkl)
        V == {i \in 1..Len(w) : vendor(w[i])}
        has_underscores == \E i \in 1..Len(w) : has_ddot_underscore(w[i])
        has_cblas == \E i \in 1..Len(w) : HasSub(w[i], sym_cblas_ddot)
        has_ddot == \E i \in 1..Len(w) : HasSub(w[i], <<"ddot">>)
    IN  IF V # {}
        THEN LET s == w[Min(V)]
             IN  IF HasSub(s, <<"open", "blas">>)
                 THEN <<TRUE, <<"HAS_OPENBLAS", "HAS_UNDERSCORES">> >>
                 ELSE IF HasSub(s, sym_blis)
                 THEN <<TRUE, <<"HAS_BLIS", "HAS_UNDERSCORES">> >>
                 ELSE <<TRUE, <<"HAS_MKL">> >>
        ELSE IF has_ddot
             THEN <<TRUE, (IF ~has_cblas THEN <<"NO_CBLAS">> ELSE <<>>)
                          \o (IF has_underscores THEN <<"HAS_UNDERSCORES">> ELSE <<>>)>>
             ELSE <<TRUE, NoFlags>>

\* a last "except" that reports the file as inspected
_find_symbols_inspected_always(bin) ==
    IF bin.elf = "ok" THEN elf_symbols(bin.syms)
    ELSE IF bin.readelf = "ok" THEN readelf_symbols(bin.syms)
    ELSE <<TRUE, NoFlags>>

_find_symbols(bin) ==
    IF bin.elf = "ok" THEN elf_symbols(bin.syms)
    ELSE IF bin.readelf = "ok" THEN readelf_symbols(bin.syms)
    ELSE <<FALSE, NoFlags>>

\* the binaries a file of the search may turn out to be
Binaries ==
      [elf : {"ok"}, readelf : {"ok"},
       syms : { <<>>, <<sym_cblas_ddot>>, <<sym_ddot_>>, <<sym_ddot_, sym_cblas_ddot>>,
                <<sym_cblas_ddot, sym_openblas>>, <<sym_blis, sym_openblas>> }]
 \cup [elf : {"raise"}, readelf : {"ok"},
       syms : { <<sym_cblas_ddot>>, <<sym_DDOT>>, <<sym_goto>>,
                <<sym_blis, sym_openblas>> }]
 \cup [elf : {"raise"}, readelf : {"raise"}, syms : { <<>> }]

\* the binaries the library bundled with numpy or scipy may turn out to be
BundledBinaries == {b \in Binaries : Len(b.syms) <= 1}

----------------------------------------------------------------------------
(* The ten vendor searches of find_blas, lines 879-961, in program order:  *)
(* the dynamic-link pass, then the static pass.                            *)

\* for platform[:3] = p3
vendor_pass_on(p3) ==
    << [form |-> "dynamic", vendor |-> "MKL", names |-> FileNames[p3].mkl1, suff |-> <<>>,
        flags |-> <<"HAS_MKL">>],
       [form |-> "dynamic", vendor |-> "OpenBLAS", names |-> FileNames[p3].openblas1,
        suff |-> openblas_suff, flags |-> <<"HAS_OPENBLAS", "HAS_UNDERSCORES">>],
       [form |-> "dynamic", vendor |-> "BLIS", names |-> FileNames[p3].blis1,
        suff |-> blis_suff, flags |-> <<"HAS_BLIS", "HAS_UNDERSCORES">>],
       [form |-> "dynamic", vendor |-> "ATLAS", names |-> FileNames[p3].atlas1, suff |-> <<>>,
        flags |-> <<"HAS_ATLAS", "HAS_UNDERSCORES">>],
       [form |-> "dynamic", vendor |-> "GSL", names |-> FileNames[p3].gsl1, suff |-> <<>>,
        flags |-> <<"HAS_GSL">>],
       [form |-> "static", vendor |-> "MKL", names |-> FileNames[p3].mkl2, suff |-> <<>>,
        flags |-> <<"HAS_MKL">>],
       [form |-> "static", vendor |-> "OpenBLAS", names |-> FileNames[p3].openblas2,
        suff |-> openblas_suff, flags |-> <<"HAS_OPENBLAS", "HAS_UNDERSCORES">>],
       [form |-> "static", vendor |-> "BLIS", names |-> FileNames[p3].blis2,
        suff |-> blis_suff, flags |-> <<"HAS_BLIS", "HAS_UNDERSCORES">>],
       [form |-> "static", vendor |-> "ATLAS", names |-> FileNames[p3].atlas2, suff |-> <<>>,
        flags |-> <<"HAS_ATLAS", "HAS_UNDERSCORES">>],
       [form |-> "static", vendor |-> "GSL", names |-> FileNames[p3].gsl2, suff |-> <<>>,
        flags |-> <<"HAS_GSL">>] >>

vendor_pass == vendor_pass_on(platform3)

\* a block that lacks the test "if blas_file is None": every vendor is searched
\* and a later hit overwrites an earlier one
vendor_block_unguarded(st, v) ==
    LET r == search_blas_lib(search_paths, v.names, v.suff)
    IN  [path  |-> IF r[2] # None THEN r[1] ELSE st.path,
         file  |-> IF r[2] # None THEN r[2] ELSE st.file,
         flags |-> IF r[2] # None THEN st.flags \o v.flags ELSE st.flags,
         log   |-> Append(st.log, <<v.form, v.vendor>>)]

\* a block whose flags_found.append lacks its test "if blas_file is not None"
vendor_block_flags_always(st, v) ==
    IF st.file # None THEN st
    ELSE LET r == search_blas_lib(search_paths, v.names, v.suff)
         IN  [path  |-> r[1],
              file  |-> r[2],
              flags |-> st.flags \o v.flags,
              log   |-> Append(st.log, <<v.form, v.vendor>>)]

\* one "if blas_file is None: ... search_blas_lib ... flags_found.append" block,
\* on the locals st = [path, file, flags, log]
vendor_block(st, v) ==
    IF st.file # None THEN st
    ELSE LET r == search_blas_lib(search_paths, v.names, v.suff)
         IN  [path  |-> r[1],
              file  |-> r[2],
              flags |-> IF r[2] # None THEN st.flags \o v.flags ELSE st.flags,
              log   |-> Append(st.log, <<v.form, v.vendor>>)]

\* the blocks k..Len(blocks), one after the other
RECURSIVE vendor_blocks(_, _, _)
vendor_blocks(st, blocks, k) ==
    IF k > Len(blocks) THEN st
    ELSE vendor_blocks(vendor_block(st, blocks[k]), blocks, k + 1)

\* the two passes exchanged: the static blocks where the dynamic ones stand
pass_blocks_exchanged(form) == SelectSeq(vendor_pass, LAMBDA v : v.form # form)

\* the blocks of one pass, in program order
pass_blocks(form) == SelectSeq(vendor_pass, LAMBDA v : v.form = form)

VendorPass(form, next_pc) ==
    /\ pc = form
    /\ LET st == vendor_blocks([path |-> blas_path, file |-> blas_file,
                                flags |-> flags_found, log |-> searched],
                               pass_blocks(form), 1)
       IN  /\ blas_path' = st.path
           /\ blas_file' = st.file
           /\ flags_found' = st.flags
           /\ searched' = st.log
    /\ pc' = next_pc
    /\ UNCHANGED <<call, ret, platform, allow_unidentified_blas, fs, inspected, cand, ci, prompts,
                   np_env, incl_path, incl_file, hdr_env, raised>>

\* lines 879-919
DynamicPass == VendorPass("dynamic", "static")

\* lines 921-961
StaticPass == VendorPass("static", "generic")

----------------------------------------------------------------------------
(* The generic-name pass, find_blas lines 963-981 *)

cblas_names == [i \in 1..Len(ext) |-> pref \o <<"c", "blas">> \o ext[i]]
blas_names ==
    [i \in 1..Len(ext) |-> pref \o <<"blas">> \o ext[i]]
    \o [i \in 1..Len(ext) |-> pref \o <<"BLAS">> \o ext[i]]

Generic ==
    /\ pc = "generic"
    /\ IF blas_file # None
       THEN UNCHANGED <<blas_path, blas_file, flags_found, searched, inspected>>
       ELSE LET r1 == search_blas_lib(search_paths, cblas_names, <<>>)
                r2 == search_blas_lib(search_paths, blas_names, <<>>)
                r  == IF r1[2] # None THEN r1 ELSE r2
            IN  /\ blas_path' = r[1]
                /\ blas_file' = r[2]
                /\ searched' = searched \o
                       (IF r1[2] # None THEN << <<"generic", "cblas">> >>
                        ELSE << <<"generic", "cblas">>, <<"generic", "blas">> >>)
                /\ IF r[2] # None /\ platform3 # "win"
                   THEN \E bin \in Binaries :
                          LET found_syms == _find_symbols(bin)
                          IN  /\ flags_found' =
                                   IF found_syms[2] # NoFlags
                                   THEN flags_found \o found_syms[2]
                                   ELSE flags_found
                              /\ inspected' = Append(inspected,
                                   [path |-> r[1], file |-> r[2], bin |-> bin,
                                    res |-> found_syms])
                   ELSE UNCHANGED <<flags_found, inspected>>
    /\ pc' = "scan"
    /\ UNCHANGED <<call, ret, platform, allow_unidentified_blas, fs, cand, ci, prompts,
                   np_env, incl_path, incl_file, hdr_env, raised>>

----------------------------------------------------------------------------
(* The name-pattern scan, find_blas lines 984-1048 *)

\* os.listdir(pt): the names of the files directly in pt
listdir(pt) ==
    LET d == IF pt[Len(pt)] = "/" THEN pt ELSE pt \o <<"/">>
    IN  { SubSeq(q, Len(d) + 1, Len(q)) :
            q \in {q \in fs : /\ Len(q) > Len(d)
                              /\ SubSeq(q, 1, Len(d)) = d
                              /\ ~HasSub(SubSeq(q, Len(d) + 1, Len(q)), <<"/">>)} }

\* lines 1024-1025 and 1030-1031: re.search("blas", f) and
\* re.search(r"\." + e[1:] + r"$", f)
name_matches(f, e) == HasSub(f, <<"blas">>) /\ EndsWith(f, <<".">> \o Tail(e))

\* the candidates of the scan, each with its list (1: dynamic, 2: static) and the
\* index of its directory
scan_candidates ==
    { [path |-> search_paths[i], file |-> f, list |-> k, dir |-> i] :
        <<i, k, f>> \in
          { t \in (1..Len(search_paths)) \X {1, 2} \X UNION {listdir(search_paths[j]) :
                                                         j \in 1..Len(search_paths)} :
              t[3] \in listdir(search_paths[t[1]]) /\ name_matches(t[3], ext[t[2]]) } }

\* lines 1017-1039: the dynamic list before the static list, each in the order
\* of search_paths; os.listdir fixes no order within one directory
scan_orders ==
    LET C == scan_candidates
        n == Cardinality(C)
    IN  { s \in [1..n -> C] :
            /\ \A i, j \in 1..n : i # j => s[i] # s[j]
            /\ \A i, j \in 1..n :
                 i < j => \/ s[i].list < s[j].list
                          \/ s[i].list = s[j].list /\ s[i].dir <= s[j].dir }

Scan ==
    /\ pc = "scan"
    /\ IF blas_file # None
       THEN pc' = "numpy" /\ UNCHANGED <<cand, ci>>
       ELSE \E s \in scan_orders :
              /\ cand' = s
              /\ ci' = 1
              /\ pc' = IF Len(s) = 0 THEN "numpy" ELSE "check"
    /\ UNCHANGED <<call, ret, platform, allow_unidentified_blas, fs, blas_path, blas_file,
                   flags_found, searched, inspected, prompts, np_env, incl_path,
                   incl_file, hdr_env, raised>>

\* lines 1044-1048 with is_blas false: the loop goes to the next candidate
NextCandidate ==
    /\ ci' = ci + 1
    /\ pc' = IF ci < Len(cand) THEN "check" ELSE "numpy"
    /\ UNCHANGED <<blas_path, blas_file, flags_found>>

\* an accepted candidate that is marked unidentified whatever its flags
TakeCandidate_marked(temp) ==
    /\ blas_file' = cand[ci].file
    /\ blas_path' = cand[ci].path
    /\ flags_found' = flags_found \o temp \o <<"UNKNWON_BLAS">>
    /\ ci' = ci
    /\ pc' = "numpy"

\* lines 1044-1048 with is_blas true
TakeCandidate(temp) ==
    /\ blas_file' = cand[ci].file
    /\ blas_path' = cand[ci].path
    /\ flags_found' = flags_found \o temp
    /\ ci' = ci
    /\ pc' = "numpy"

\* a prompt that forgets allow_unidentified_blas
asks_always(ask_user) == ask_user

\* who is asked: lines 996-1002 call input() when ask_user and allow_unidentified_blas
asks(ask_user) == ask_user /\ allow_unidentified_blas

\* check_is_blas up to the prompt, lines 984-996
Check ==
    /\ pc = "check"
    /\ IF platform3 # "win"
       THEN \E bin \in Binaries :
              LET found_syms == _find_symbols(bin)
                  is_blas == found_syms[1] /\ found_syms[2] # NoFlags
                  ask_user == ~found_syms[1]
              IN  /\ inspected' = Append(inspected,
                        [path |-> cand[ci].path, file |-> cand[ci].file, bin |-> bin,
                         res |-> found_syms])
                  /\ IF asks(ask_user)
                     THEN pc' = "prompt" /\ UNCHANGED <<blas_path, blas_file, flags_found, ci>>
                     ELSE IF is_blas THEN TakeCandidate(found_syms[2])
                     ELSE NextCandidate
       ELSE /\ UNCHANGED inspected
            /\ IF asks(TRUE)
               THEN pc' = "prompt" /\ UNCHANGED <<blas_path, blas_file, flags_found, ci>>
               ELSE NextCandidate
    /\ UNCHANGED <<call, ret, platform, allow_unidentified_blas, fs, searched, cand, prompts,
                   np_env, incl_path, incl_file, hdr_env, raised>>

\* what input() may give: a line starting with y or n (any case), another
\* line, the empty line, or no line at all (end of input)
Answers == {"y", "n", "other", "empty", "eof"}

\* how many times in a row the model lets the user give a line that is neither
MaxOther == 1

asked_for_current ==
    Cardinality({k \in 1..Len(prompts) :
                    prompts[k].file = cand[ci].file /\ prompts[k].path = cand[ci].path})

\* one turn of the loop of lines 1001-1009
Prompt ==
    /\ pc = "prompt"
    /\ \E a \in Answers :
         /\ a = "other" => asked_for_current < MaxOther
         /\ prompts' = Append(prompts,
                [path |-> cand[ci].path, file |-> cand[ci].file, answer |-> a])
         /\ CASE a = "y" -> TakeCandidate(<<"UNKNWON_BLAS">>) /\ UNCHANGED raised
              [] a = "n" -> NextCandidate /\ UNCHANGED raised
              [] a = "other" ->
                   pc' = "prompt" /\ UNCHANGED <<blas_path, blas_file, flags_found, ci, raised>>
              [] a = "empty" ->
                   \* use_this.lower()[0] of the empty string
                   /\ raised' = [type |-> "IndexError", msg |-> <<>>]
                   /\ pc' = "error"
                   /\ UNCHANGED <<blas_path, blas_file, flags_found, ci>>
              [] a = "eof" ->
                   /\ raised' = [type |-> "EOFError", msg |-> <<>>]
                   /\ pc' = "error"
                   /\ UNCHANGED <<blas_path, blas_file, flags_found, ci>>
    /\ UNCHANGED <<call, ret, platform, allow_unidentified_blas, fs, searched, inspected, cand,
                   np_env, incl_path, incl_file, hdr_env>>

----------------------------------------------------------------------------
(* The last resort, find_blas lines 1050-1092: the library bundled with    *)
(* numpy, then the one bundled with scipy.                                 *)

err_msg == <<"Could not locate ", "MKL", ", ", "OpenBLAS", ", ", "BLIS", ", ", "ATLAS",
             " or ", "GSL",
             " libraries - you'll need to manually modify setup.py to add BLAS path.">>

no_exception == [type |-> "none", msg |-> <<>>]

\* find_blas is running, no helper is called on its own
no_call == [fn |-> "find_blas", args |-> <<>>]

\* lines 1055-1060: numpy's folder + ".libs", and its first file matching "blas"
np_path == <<"/", "site-packages", "/", "numpy", "/", ".libs">>
np_file == <<"lib", "open", "blas", "p-r0", ".", "so">>

\* lines 1076-1078: the two halves of scipy.linalg.cython_blas.__file__
scipy_path == <<"/", "site-packages", "/", "scipy", "/", "linalg">>
scipy_file == <<"cython_", "blas", ".", "so">>

\* What the imports meet.  "absent" is every failure before blas_file is
\* assigned: the import fails, numpy has no .libs folder, no file matches.
\* warnings.warn is taken not to raise (the default warnings filter).
Presence == {"absent", "present"}

np_env_unset == [numpy |-> "unset", scipy |-> "unset"]

Numpy ==
    /\ pc = "numpy"
    /\ IF blas_file # None
       THEN /\ pc' = "header"
            /\ UNCHANGED <<blas_path, blas_file, flags_found, inspected, np_env>>
       ELSE \E e \in Presence :
              /\ np_env' = [np_env EXCEPT !.numpy = e]
              /\ IF e = "absent"
                 THEN /\ pc' = "scipy"
                      /\ UNCHANGED <<blas_path, blas_file, flags_found, inspected>>
                 ELSE /\ blas_file' = np_file
                      /\ blas_path' = np_path
                      /\ IF platform3 # "win"
                         THEN \E bin \in BundledBinaries :
                                LET found_syms == _find_symbols(bin)
                                IN  /\ inspected' = Append(inspected,
                                          [path |-> np_path, file |-> np_file, bin |-> bin,
                                           res |-> found_syms])
                                    /\ IF found_syms[1] /\ found_syms[2] = NoFlags
                                       THEN \* raise ValueError(err_msg), caught at line 1072
                                            pc' = "scipy" /\ UNCHANGED flags_found
                                       ELSE /\ flags_found' =
                                                 IF found_syms[1]
                                                 THEN flags_found \o found_syms[2]
                                                 ELSE flags_found
                                            /\ pc' = "header"
                         ELSE /\ UNCHANGED <<flags_found, inspected>>
                              /\ pc' = "header"
    /\ UNCHANGED <<call, ret, platform, allow_unidentified_blas, fs, searched, cand, ci,
                   prompts, incl_path, incl_file, hdr_env, raised>>

\* a last resort that gives up without raising: find_blas returns the Nones
ReturnNotFound ==
    /\ raised' = raised
    /\ pc' = "done"

\* line 1092 (and 1083, 1087 caught at 1091): raise ValueError(err_msg)
RaiseNotFound ==
    /\ raised' = [type |-> "ValueError", msg |-> err_msg]
    /\ pc' = "error"

Scipy ==
    /\ pc = "scipy"
    /\ \E e \in Presence :
         /\ np_env' = [np_env EXCEPT !.scipy = e]
         /\ IF e = "absent"
            THEN RaiseNotFound /\ UNCHANGED <<blas_path, blas_file, flags_found, inspected>>
            ELSE /\ blas_file' = scipy_file
                 /\ blas_path' = scipy_path
                 /\ IF platform3 # "win"
                    THEN \E bin \in BundledBinaries :
                           LET found_syms == _find_symbols(bin)
                           IN  /\ inspected' = Append(inspected,
                                     [path |-> scipy_path, file |-> scipy_file,
                                      bin |-> bin, res |-> found_syms])
                               /\ IF found_syms[1] /\ found_syms[2] = NoFlags
                                  THEN RaiseNotFound /\ UNCHANGED flags_found
                                  ELSE /\ flags_found' =
                                            IF found_syms[1]
                                            THEN flags_found \o found_syms[2]
                                            ELSE flags_found
                                       /\ pc' = "header"
                                       /\ UNCHANGED raised
                    ELSE /\ UNCHANGED <<flags_found, inspected, raised>>
                         /\ pc' = "header"
    /\ UNCHANGED <<call, ret, platform, allow_unidentified_blas, fs, searched, cand, ci,
                   prompts, incl_path, incl_file, hdr_env>>

----------------------------------------------------------------------------
(* _deduplicate_paths, lines 1175-1185 *)

\* re.sub(r"\\", "/", pt)
unify_slashes(pt) == [i \in 1..Len(pt) |-> IF pt[i] = "\\" THEN "/" ELSE pt[i]]

\* a replacement of each pair of slashes, made in one pass: "///" becomes "//"
RECURSIVE collapse_slashes_once(_)
collapse_slashes_once(pt) ==
    IF Len(pt) <= 1 THEN pt
    ELSE IF pt[1] = "/" /\ pt[2] = "/"
         THEN <<"/">> \o collapse_slashes_once(SubSeq(pt, 3, Len(pt)))
    ELSE <<pt[1]>> \o collapse_slashes_once(Tail(pt))

\* re.sub(r"/+", "/", pt)
RECURSIVE collapse_slashes(_)
collapse_slashes(pt) ==
    IF Len(pt) <= 1 THEN pt
    ELSE IF pt[1] = "/" /\ pt[2] = "/" THEN collapse_slashes(Tail(pt))
    ELSE <<pt[1]>> \o collapse_slashes(Tail(pt))

normalize_path(pt) == collapse_slashes(unify_slashes(pt))

\* a loop that tests the path as given, not the normalized one, against the
\* paths seen
RECURSIVE dedup_from_raw_seen(_, _)
dedup_from_raw_seen(paths, out) ==
    IF paths = <<>> THEN out
    ELSE LET pt == normalize_path(Head(paths))
         IN  IF \E k \in 1..Len(out) : out[k] = Head(paths)
             THEN dedup_from_raw_seen(Tail(paths), out)
             ELSE dedup_from_raw_seen(Tail(paths), Append(out, pt))

RECURSIVE dedup_from(_, _)
dedup_from(paths, out) ==
    IF paths = <<>> THEN out
    ELSE LET pt == normalize_path(Head(paths))
         IN  IF \E k \in 1..Len(out) : out[k] = pt
             THEN dedup_from(Tail(paths), out)
             ELSE dedup_from(Tail(paths), Append(out, pt))

_deduplicate_paths(candidate_paths) == dedup_from(candidate_paths, <<>>)

----------------------------------------------------------------------------
(* Header resolution, find_blas lines 1094-1172 *)

incl_mkl_name == << <<"mkl", ".", "h">>, <<"mkl", "_", "c", "blas", ".", "h">>,
                    <<"mkl", "_", "blas", ".", "h">> >>
incl_openblas_name == << <<"c", "blas", "-", "open", "blas", ".", "h">> >>
incl_blis_name == << <<"blis", ".", "h">> >>
incl_atlas_name == <<>>
incl_gsl_name == << <<"gsl", "_", "c", "blas", ".", "h">>, <<"gsl", "_", "blas", ".", "h">> >>
incl_generic_name == << <<"c", "blas", ".", "h">>, <<"blas", ".", "h">> >>

\* the include-path lists as the path collection leaves them (one entry each)
mkl_include_paths == << <<"/", "opt", "/", "intel", "/", "include">> >>
openblas_include_paths == << <<"/", "opt", "/", "openblas", "/", "include">> >>
blis_include_paths == << <<"/", "opt", "/", "AMD", "/", "aocl", "/", "4.0", "/", "amd-", "blis">> >>
atlas_include_paths == << <<"/", "usr", "/", "lib", "/", "atlas">> >>
gsl_include_paths == << <<"/", "usr", "/", "include", "/", "gsl">> >>
system_include_paths == << <<"/", "usr", "/", "include">> >>

\* tokens of one character, for the "." of a regular expression
OneCharTokens == {"/", "\\", ".", "_", "-", "c", "t", "s"}

\* re.sub("/lib.?$", "/include", p)
sub_lib_end(p) ==
    LET n == Len(p)
    IN  IF n >= 2 /\ p[n - 1] = "/" /\ p[n] = "lib"
        THEN SubSeq(p, 1, n - 2) \o <<"/", "include">>
        ELSE IF n >= 3 /\ p[n - 2] = "/" /\ p[n - 1] = "lib" /\ p[n] \in OneCharTokens
        THEN SubSeq(p, 1, n - 3) \o <<"/", "include">>
        ELSE p

\* re.sub(r"^(.*)/lib/(.*)$", r"\1/include/\2", p): the last "/lib/"
sub_lib_mid(p) ==
    LET I == {i \in 1..(Len(p) - 2) : SubSeq(p, i, i + 2) = <<"/", "lib", "/">>}
    IN  IF I = {} THEN p
        ELSE LET i == CHOOSE x \in I : \A y \in I : y <= x
             IN  SubSeq(p, 1, i - 1) \o <<"/", "include", "/">> \o SubSeq(p, i + 3, Len(p))

\* re.sub(r"^(.*)Library.*$", r"\1include", p): the last "Library"
sub_library(p) ==
    LET I == {i \in 1..Len(p) : p[i] = "Library"}
    IN  IF I = {} THEN p
        ELSE LET i == CHOOSE x \in I : \A y \in I : y <= x
             IN  SubSeq(p, 1, i - 1) \o <<"include">>

get_inc_paths(bp, include_paths, sys_paths) ==
    _deduplicate_paths(include_paths
                       \o <<bp, sub_lib_end(bp), sub_lib_mid(bp), sub_library(bp)>>
                       \o sys_paths)

\* A header file: its full path, its lines, and whether open() succeeds.
hdr_lookup(env, p) == {h \in env : h.file = p}

\* the (header name, directory) pairs in the order lines 1108-1109 visit them
incl_pairs(paths, names) ==
    [k \in 1..(Len(names) * Len(paths)) |->
        [name |-> names[((k - 1) \div Len(paths)) + 1],
         path |-> paths[((k - 1) % Len(paths)) + 1]]]

\* lines 1114-1121: some line holds some keyword
hdr_matches(h, keywords) ==
    \E ln \in h.lines : \E k \in 1..Len(keywords) : HasSub(ln, keywords[k])

\* the two loops exchanged: for each directory, each header name
search_incl_kwds_paths_first(env, paths, names, keywords) ==
    LET H == { t \in (1..Len(paths)) \X (1..Len(names)) :
                 \E h \in env : /\ h.file = join(paths[t[1]], names[t[2]])
                                /\ (~h.readable \/ hdr_matches(h, keywords)) }
    IN  IF H = {} THEN [path |-> None, file |-> None, exc |-> "none"]
        ELSE LET t == CHOOSE x \in H :
                        \A y \in H : x[1] < y[1] \/ (x[1] = y[1] /\ x[2] <= y[2])
                 h == CHOOSE x \in hdr_lookup(env, join(paths[t[1]], names[t[2]])) : TRUE
             IN  IF ~h.readable
                 THEN [path |-> None, file |-> None, exc |-> "OSError"]
                 ELSE [path |-> paths[t[1]], file |-> names[t[2]], exc |-> "none"]

\* search_incl_kwds, lines 1105-1123; exc is the exception open() raised
search_incl_kwds(env, paths, names, keywords) ==
    LET np == Len(paths)
        \* the files of env among the visited ones, by their place in the visit
        K == { (i - 1) * np + j : <<i, j>> \in
                 { t \in (1..Len(names)) \X (1..np) :
                     \E h \in env : /\ h.file = join(paths[t[2]], names[t[1]])
                                    /\ (~h.readable \/ hdr_matches(h, keywords)) } }
    IN  IF K = {} THEN [path |-> None, file |-> None, exc |-> "none"]
        ELSE LET k == Min(K)
                 pr == incl_pairs(paths, names)[k]
                 h == CHOOSE x \in hdr_lookup(env, join(pr.path, pr.name)) : TRUE
             IN  IF ~h.readable
                 THEN [path |-> None, file |-> None, exc |-> "OSError"]
                 ELSE [path |-> pr.path, file |-> pr.name, exc |-> "none"]

kw_MKL == <<"MKL">>
kw_openblas == <<"open", "blas">>
kw_blis == <<"blis">>
kw_amd_blis == <<"amd-", "blis">>
kw_atlas == <<"atlas">>
kw_ATLAS == <<"ATLAS">>
kw_GSL_CBLAS == <<"GSL_", "CBLAS">>
kw_cblas == <<"c", "blas">>
kw_CBLAS == <<"CBLAS">>
kw_ddot == <<"ddot">>
kw_DDOT == <<"DDOT">>

InFlags(f) == \E k \in 1..Len(flags_found) : flags_found[k] = f

\* a last branch that forgets the flag
mark_unknown_forgotten(flags) == flags

\* lines 1161-1162: flags_found.append("UNKNWON_BLAS") in the last branch
mark_unknown(flags) == Append(flags, "UNKNWON_BLAS")

\* lines 1125-1170: the branch taken, as the lists and keywords it searches with
header_branch ==
    IF InFlags("HAS_MKL")
    THEN [paths |-> get_inc_paths(blas_path, mkl_include_paths, system_include_paths),
          names |-> incl_mkl_name \o incl_generic_name,
          kwds |-> <<kw_MKL>>, unknown |-> FALSE]
    ELSE IF InFlags("HAS_OPENBLAS")
    THEN [paths |-> get_inc_paths(blas_path, openblas_include_paths, system_include_paths),
          names |-> incl_openblas_name \o incl_generic_name,
          kwds |-> <<kw_openblas>>, unknown |-> FALSE]
    ELSE IF InFlags("HAS_BLIS")
    THEN [paths |-> get_inc_paths(blas_path, openblas_include_paths, system_include_paths),
          names |-> incl_openblas_name \o incl_generic_name,
          kwds |-> <<kw_blis, kw_amd_blis>>, unknown |-> FALSE]
    ELSE IF InFlags("HAS_ATLAS")
    THEN [paths |-> get_inc_paths(blas_path, atlas_include_paths, system_include_paths),
          names |-> incl_atlas_name \o incl_generic_name,
          kwds |-> <<kw_atlas, kw_ATLAS>>, unknown |-> FALSE]
    ELSE IF InFlags("HAS_GSL")
    THEN [paths |-> get_inc_paths(blas_path, gsl_include_paths, system_include_paths),
          names |-> incl_gsl_name \o incl_generic_name,
          kwds |-> <<kw_GSL_CBLAS>>, unknown |-> FALSE]
    ELSE [paths |-> get_inc_paths(blas_path, <<>>, system_include_paths),
          names |-> incl_generic_name,
          kwds |-> <<kw_MKL, kw_openblas, kw_blis, kw_atlas, kw_ATLAS>>
                   \o (IF ~InFlags("NO_CBLAS")
                       THEN <<kw_GSL_CBLAS, kw_cblas, kw_CBLAS>> ELSE <<>>)
                   \o <<kw_ddot, kw_DDOT>>,
          unknown |-> TRUE]

\* the header files the model places under the include directories
usr_include == <<"/", "usr", "/", "include">>
hdr_cblas_ref ==
    [file |-> join(usr_include, <<"c", "blas", ".", "h">>),
     lines |-> { <<"double ", "c", "blas", "_", "ddot", "(">> }, readable |-> TRUE]
hdr_cblas_openblas ==
    [file |-> join(usr_include, <<"c", "blas", ".", "h">>),
     lines |-> { <<"#include ", "open", "blas", "_config.h">>,
                 <<"double ", "c", "blas", "_", "ddot", "(">> }, readable |-> TRUE]
hdr_cblas_empty ==
    [file |-> join(usr_include, <<"c", "blas", ".", "h">>),
     lines |-> { <<"#pragma once">> }, readable |-> TRUE]
hdr_cblas_locked ==
    [file |-> join(usr_include, <<"c", "blas", ".", "h">>),
     lines |-> {}, readable |-> FALSE]
hdr_blas_fortran ==
    [file |-> join(usr_include, <<"blas", ".", "h">>),
     lines |-> { <<"double ", "ddot", "_", "(">> }, readable |-> TRUE]
hdr_blis ==
    [file |-> join(blis_include_paths[1], <<"blis", ".", "h">>),
     lines |-> { <<"#define ", "blis", "_version">> }, readable |-> TRUE]
hdr_mkl ==
    [file |-> join(mkl_include_paths[1], <<"mkl", ".", "h">>),
     lines |-> { <<"#include ", "MKL", "_version.h">> }, readable |-> TRUE]

HeaderEnvs == { {}, {hdr_cblas_openblas, hdr_mkl}, {hdr_cblas_locked},
                {hdr_cblas_empty, hdr_blas_fortran}, {hdr_cblas_ref, hdr_blis} }

Header ==
    /\ pc = "header"
    /\ \E b \in {header_branch}, env \in HeaderEnvs :
         \E r \in {search_incl_kwds(env, b.paths, b.names, b.kwds)} :
             /\ hdr_env' = env
             /\ flags_found' = IF b.unknown THEN mark_unknown(flags_found)
                               ELSE flags_found
             /\ incl_path' = r.path
             /\ incl_file' = r.file
             /\ IF r.exc = "none"
                THEN pc' = "done" /\ UNCHANGED raised
                ELSE pc' = "error" /\ raised' = [type |-> r.exc, msg |-> <<>>]
    /\ UNCHANGED <<call, ret, platform, allow_unidentified_blas, fs, blas_path, blas_file,
                   searched, inspected, cand, ci, prompts, np_env>>

----------------------------------------------------------------------------
(* The files the model places in the directories *)

Platforms == {"win32", "darwin", "linux"}

\* names that occur in the lists of the code, and two that only match 'blas'
lib_names ==
    { mkl_file_names1[2], openblas_file_names1[1], blis_file_names1[1],
      gsl_file_names1[1], mkl_file_names2[1], atlas_file_names2[1],
      cblas_names[1], blas_names[Len(blas_names)],
      pref \o <<"flexi", "blas">> \o ext[1], pref \o <<"flexi", "blas">> \o ext[2] }

\* sub-installation directories of /usr/lib and /opt/lib/
usr_lib_openblas == usr_lib \o <<"/", "open", "blas">>
opt_lib_openblas == opt_lib \o <<"open", "blas">>

FileUniverse ==
    { join(search_paths[i], n) : i \in 1..Len(search_paths), n \in lib_names }
    \cup { join(d, openblas_file_names1[1]) :
             d \in {usr_lib_openblas, opt_lib_openblas} }

RECURSIVE SubsetsUpTo(_, _)
SubsetsUpTo(S, n) ==
    IF n = 0 THEN {{}}
    ELSE LET P == SubsetsUpTo(S, n - 1)
         IN  P \cup { p \cup {x} : p \in P, x \in S }

----------------------------------------------------------------------------
(* find_blas from its first line to its return or its exception *)

Init ==
    /\ platform \in Platforms
    /\ allow_unidentified_blas \in BOOLEAN
    /\ fs \in SubsetsUpTo(FileUniverse, MaxFiles)
    /\ pc = "dynamic"
    /\ blas_path = None
    /\ blas_file = None
    /\ flags_found = <<>>
    /\ searched = <<>>
    /\ inspected = <<>>
    /\ cand = <<>>
    /\ ci = 0
    /\ prompts = <<>>
    /\ np_env = np_env_unset
    /\ incl_path = None
    /\ incl_file = None
    /\ hdr_env = {}
    /\ raised = no_exception
    /\ call = no_call
    /\ ret = <<>>

Next ==
    \/ DynamicPass
    \/ StaticPass
    \/ Generic
    \/ Scan
    \/ Check
    \/ Prompt
    \/ Numpy
    \/ Scipy
    \/ Header

Spec == Init /\ [][Next]_vars

----------------------------------------------------------------------------
(* Vocabulary of the properties *)

Forms == {"dynamic", "static"}
VendorOrder == <<"MKL", "OpenBLAS", "BLIS", "ATLAS", "GSL">>
Vendors == {VendorOrder[i] : i \in 1..Len(VendorOrder)}
VendorRank == [v \in Vendors |-> CHOOSE i \in 1..Len(VendorOrder) : VendorOrder[i] = v]
rank(vendor) == VendorRank[vendor]
pass_rank(form, vendor) == (IF form = "dynamic" THEN 0 ELSE Len(VendorOrder)) + rank(vendor)

IdentityFlag == [v \in Vendors |->
    CASE v = "MKL" -> "HAS_MKL" [] v = "OpenBLAS" -> "HAS_OPENBLAS"
      [] v = "BLIS" -> "HAS_BLIS" [] v = "ATLAS" -> "HAS_ATLAS" [] OTHER -> "HAS_GSL"]
VendorFlags == {IdentityFlag[v] : v \in Vendors}

Range(q) == {q[i] : i \in 1..Len(q)}

\* the directories find_blas searches for one entry of vendor_pass
entry_dirs(v) ==
    Range(search_paths)
    \cup {search_paths[i] \o v.suff[j] : i \in 1..Len(search_paths), j \in 1..Len(v.suff)}

\* per platform and entry of vendor_pass: the entry's (form, vendor), its names,
\* and the full paths find_blas looks at for it (constants, so computed once)
EntryKey ==
    [k \in 1..Len(vendor_pass_on("lin")) |->
        <<vendor_pass_on("lin")[k].form, vendor_pass_on("lin")[k].vendor>>]
EntryNames ==
    [p3 \in {"win", "dar", "lin"} |->
        [k \in 1..Len(vendor_pass_on(p3)) |-> Range(vendor_pass_on(p3)[k].names)]]
EntryFiles ==
    [p3 \in {"win", "dar", "lin"} |->
        [k \in 1..Len(vendor_pass_on(p3)) |->
            {join(d, n) : d \in entry_dirs(vendor_pass_on(p3)[k]),
                          n \in Range(vendor_pass_on(p3)[k].names)}]]

\* the (form, vendor) pairs of which a file exists in a directory searched for it
present_set ==
    { EntryKey[k] : k \in {k \in 1..Len(EntryKey) : EntryFiles[platform3][k] \cap fs # {}} }

\* the (form, vendor) pairs whose name list holds the file name f
owners(f) ==
    { EntryKey[k] : k \in {k \in 1..Len(EntryKey) : f \in EntryNames[platform3][k]} }

returned == pc = "done"
identity_flags_found == {k \in 1..Len(flags_found) : flags_found[k] \in VendorFlags}

----------------------------------------------------------------------------
(* C1.  Vendor priority within one pass.  Whenever find_blas returns and   *)
(* the directories hold a file of vendor A and a file of vendor B in the   *)
(* same form, A before B in MKL, OpenBLAS, BLIS, ATLAS, GSL: the returned  *)
(* file is not B's; and when no vendor file precedes A's in the search     *)
(* order, the returned file is A's, it exists in the returned directory,   *)
(* and the only identity flag returned is A's, wherever the two files lie. *)

C1_VendorPriority ==
    returned =>
      \A P \in {present_set}, O \in {owners(blas_file)} :
        \A pa \in P, pb \in P :
          (pa[1] = pb[1] /\ rank(pa[2]) < rank(pb[2])) =>
            /\ pb \notin O
            /\ (\A q \in P : pass_rank(pa[1], pa[2]) <= pass_rank(q[1], q[2])) =>
                 /\ pa \in O
                 /\ join(blas_path, blas_file) \in fs
                 /\ {flags_found[k] : k \in identity_flags_found} = {IdentityFlag[pa[2]]}

\* A's file lies in the second directory, B's in the first, and A's is returned
C1_Witness ==
    /\ returned
    /\ blas_path = search_paths[2]
    /\ \E pa \in owners(blas_file) :
         \E pb \in present_set :
            /\ pb[1] = pa[1]
            /\ rank(pa[2]) < rank(pb[2])
            /\ \E n \in Range(vendor_pass[pass_rank(pb[1], pb[2])].names) :
                 join(search_paths[1], n) \in fs

----------------------------------------------------------------------------
(* C2.  Pass order.  The searches are made in the order: the dynamic pass  *)
(* over the five vendors, the static pass over the five vendors, the       *)
(* generic names (cblas, then blas/BLAS); a generic search is made only    *)
(* after all ten vendor searches, all of which found nothing.  So a        *)
(* dynamic-form vendor file, when one exists, is returned whatever static  *)
(* files exist, and a generically named file is returned only when no      *)
(* vendor-named file of either form exists.                                *)

log_rank(e) ==
    IF e[1] = "generic" THEN 2 * Len(VendorOrder) + (IF e[2] = "cblas" THEN 1 ELSE 2)
    ELSE pass_rank(e[1], e[2])

generic_names == Range(cblas_names) \cup Range(blas_names)

C2_PassOrder ==
    /\ \A i \in 1..(Len(searched) - 1) : log_rank(searched[i]) < log_rank(searched[i + 1])
    /\ (\E i \in 1..Len(searched) : searched[i][1] = "generic") =>
         /\ \A f \in Forms, v \in Vendors : \E i \in 1..Len(searched) : searched[i] = <<f, v>>
         /\ present_set = {}
    /\ returned =>
         \A P \in {present_set}, O \in {owners(blas_file)} :
           /\ (\E p \in P : p[1] = "dynamic") => (\E o \in O : o[1] = "dynamic")
           /\ blas_file \in generic_names => P = {}

\* a static file of MKL and a dynamic file of a later vendor: the dynamic one is returned
C2_Witness ==
    /\ returned
    /\ <<"static", "MKL">> \in present_set
    /\ \E o \in owners(blas_file) : o[1] = "dynamic" /\ rank(o[2]) > 1

----------------------------------------------------------------------------
(* C3.  Fatal not-found.  When the candidate directories hold no file with *)
(* a vendor name, a generic name or a name matching 'blas', and neither    *)
(* numpy nor scipy provides a library, find_blas does not return: it ends  *)
(* with one ValueError whose message names MKL, OpenBLAS, BLIS, ATLAS and  *)
(* GSL.                                                                    *)

no_library_file ==
    /\ present_set = {}
    /\ \A i \in 1..Len(search_paths), n \in generic_names : join(search_paths[i], n) \notin fs
    /\ scan_candidates = {}

fallback_absent == np_env.numpy = "absent" /\ np_env.scipy = "absent"

----------------------------------------------------------------------------
(* C4.  With allow_unidentified_blas false, when the only library file in  *)
(* the candidate directories has a generic name (cblas, blas, BLAS, or any *)
(* name matching 'blas'), no inspection of it gives flags, and neither     *)
(* numpy nor scipy provides a library, find_blas does not return the file: *)
(* it shows no prompt and ends with the not-found ValueError.              *)

only_generic_file ==
    /\ Cardinality(fs) = 1
    /\ present_set = {}
    /\ \/ \E i \in 1..Len(search_paths), n \in generic_names : fs = {join(search_paths[i], n)}
       \/ scan_candidates # {}

unclassified == \A k \in 1..Len(inspected) : inspected[k].res[2] = NoFlags

fallback_not_taken == np_env.numpy # "present" /\ np_env.scipy # "present"

C4_UnidentifiedRejected ==
    (~allow_unidentified_blas /\ only_generic_file /\ unclassified /\ fallback_not_taken) =>
      /\ ~returned
      /\ prompts = <<>>
      /\ pc = "error" => raised = [type |-> "ValueError", msg |-> err_msg]

----------------------------------------------------------------------------
(* C5.  With allow_unidentified_blas false, input() is never called: no    *)
(* prompt has been shown and none is pending, on every platform and for    *)
(* every content of the candidate directories.                             *)

C5_NoPromptWhenDisallowed ==
    ~allow_unidentified_blas => (prompts = <<>> /\ pc # "prompt")

\* every candidate of the scan was seen, one of them could not be inspected,
\* and none was taken
C5_Witness ==
    /\ ~allow_unidentified_blas
    /\ Len(cand) > 0
    /\ ci > Len(cand)
    /\ \E k \in 1..Len(inspected) : ~inspected[k].res[1]

----------------------------------------------------------------------------
(* C6.  At every stage of find_blas, and so in every result, the flag list *)
(* holds at most one occurrence of a vendor identity flag (HAS_MKL,        *)
(* HAS_OPENBLAS, HAS_BLIS, HAS_ATLAS, HAS_GSL), and it holds UNKNWON_BLAS  *)
(* only if it holds none of them.                                          *)

C6_FlagInvariant ==
    /\ Cardinality(identity_flags_found) <= 1
    /\ InFlags("UNKNWON_BLAS") => identity_flags_found = {}

\* a result of the last resort whose symbols gave a vendor
C6_Witness ==
    /\ returned
    /\ np_env.numpy = "present" \/ np_env.scipy = "present"
    /\ identity_flags_found # {}

----------------------------------------------------------------------------
(* C7.  Every result of find_blas whose flags hold no vendor identity flag *)
(* holds UNKNWON_BLAS, by whichever stage the file was accepted.           *)

C7_UnknownMarked ==
    (returned /\ identity_flags_found = {}) => InFlags("UNKNWON_BLAS")

\* a result accepted by the generic-name pass without any flag
C7_Witness ==
    /\ returned
    /\ blas_file \in generic_names
    /\ Len(inspected) = 1
    /\ inspected[1].res[2] = NoFlags
    /\ flags_found = <<"UNKNWON_BLAS">>

----------------------------------------------------------------------------
(* C8.  On linux, when the candidate directories hold exactly one file,    *)
(* libopenblas.so, find_blas, when it returns, returns the directory that  *)
(* holds it, that file name, and the flags HAS_OPENBLAS, HAS_UNDERSCORES   *)
(* and no other.                                                           *)

libopenblas_so == <<"lib", "open", "blas", ".", "so">>

C8_OnlyOpenBLAS ==
    \A i \in 1..Len(search_paths) :
      (platform = "linux" /\ fs = {join(search_paths[i], libopenblas_so)} /\ returned) =>
        /\ blas_path = search_paths[i]
        /\ blas_file = libopenblas_so
        /\ flags_found = <<"HAS_OPENBLAS", "HAS_UNDERSCORES">>

C8_Witness ==
    /\ platform = "linux"
    /\ fs = {join(search_paths[2], libopenblas_so)}
    /\ returned
    /\ incl_file # None

----------------------------------------------------------------------------
(* C9.  On linux, when the candidate directories hold only libcblas.so and *)
(* its symbol table has cblas_ddot and no vendor fingerprint symbol, the   *)
(* library is returned with the empty flag list, without UNKNWON_BLAS.     *)

libcblas_so == <<"lib", "c", "blas", ".", "so">>

only_libcblas == \E i \in 1..Len(search_paths) : fs = {join(search_paths[i], libcblas_so)}

readable(bin) == bin.elf = "ok" \/ bin.readelf = "ok"

has_symbol(bin, nm) == \E k \in 1..Len(bin.syms) : bin.syms[k] = nm

\* the generic pass read the symbols of the file: cblas_ddot, no fingerprint
cblas_without_fingerprint ==
    /\ Len(inspected) = 1
    /\ readable(inspected[1].bin)
    /\ has_symbol(inspected[1].bin, sym_cblas_ddot)
    /\ \A nm \in {sym_openblas, sym_blis, sym_mkl} : ~has_symbol(inspected[1].bin, nm)

C9_GenericEmptyFlags ==
    (platform = "linux" /\ only_libcblas /\ cblas_without_fingerprint /\ returned) =>
      /\ blas_file = libcblas_so
      /\ flags_found = <<>>

(* C9, amended.  In the same case, and when no symbol name holds           *)
(* 'openblas', 'bli_axpyd' or 'mkl_dcsrgemv', the classification gives     *)
(* found = True with no vendor identity flag and no NO_CBLAS (the empty    *)
(* list, or HAS_UNDERSCORES alone when a ddot_ symbol is there), and       *)
(* find_blas returns the file with those flags followed by UNKNWON_BLAS.   *)

vendor_mark(nm) ==
    HasSub(nm, <<"open", "blas">>) \/ HasSub(nm, sym_blis) \/ HasSub(nm, sym_mkl)

C9_GenericMarkedUnknown ==
    (/\ platform = "linux" /\ only_libcblas /\ cblas_without_fingerprint /\ returned
     /\ \A k \in 1..Len(inspected[1].bin.syms) : ~vendor_mark(inspected[1].bin.syms[k])) =>
      LET fl == IF has_symbol(inspected[1].bin, sym_ddot_)
                THEN <<"HAS_UNDERSCORES">> ELSE <<>>
      IN  /\ blas_file = libcblas_so
          /\ join(blas_path, blas_file) \in fs
          /\ inspected[1].res = <<TRUE, fl>>
          /\ flags_found = fl \o <<"UNKNWON_BLAS">>

C9_Witness ==
    /\ platform = "linux"
    /\ only_libcblas
    /\ cblas_without_fingerprint
    /\ inspected[1].bin.syms = <<sym_cblas_ddot>>
    /\ returned
    /\ flags_found = <<"UNKNWON_BLAS">>

----------------------------------------------------------------------------
(* _find_symbols on its own: one call on a binary whose symbol table is    *)
(* any sequence of distinct symbols up to MaxSyms, read by either strategy *)
(* or by none.                                                             *)

\* at most this many symbols in a symbol table
MaxSyms == 3

Symbols == {sym_openblas, sym_blis, sym_mkl, sym_ddot_, sym_cblas_ddot, sym_ddot,
            sym_DDOT, sym_goto, sym_other}

SymTables ==
    { t \in UNION {[1..n -> Symbols] : n \in 0..MaxSyms} :
        \A i, j \in 1..Len(t) : i # j => t[i] # t[j] }

SymBinaries ==
      [elf : {"ok"}, readelf : {"ok"}, syms : SymTables]
 \cup [elf : {"raise"}, readelf : {"ok", "raise"}, syms : SymTables]

InitSym ==
    /\ platform = "linux"
    /\ allow_unidentified_blas = TRUE
    /\ fs = {}
    /\ pc = "symbols"
    /\ blas_path = None
    /\ blas_file = None
    /\ flags_found = <<>>
    /\ searched = <<>>
    /\ inspected = <<>>
    /\ cand = <<>>
    /\ ci = 0
    /\ prompts = <<>>
    /\ np_env = np_env_unset
    /\ incl_path = None
    /\ incl_file = None
    /\ hdr_env = {}
    /\ raised = no_exception
    /\ call = no_call
    /\ ret = <<>>

\* found_syms = _find_symbols(pt, fname)
FindSymbols ==
    /\ pc = "symbols"
    /\ \E bin \in SymBinaries :
         inspected' = Append(inspected,
             [path |-> usr_lib, file |-> cblas_names[1], bin |-> bin,
              res |-> _find_symbols(bin)])
    /\ pc' = "classified"
    /\ UNCHANGED <<call, ret, platform, allow_unidentified_blas, fs, blas_path, blas_file,
                   flags_found, searched, cand, ci, prompts, np_env, incl_path,
                   incl_file, hdr_env, raised>>

NextSym == FindSymbols

SpecSym == InitSym /\ [][NextSym]_vars

----------------------------------------------------------------------------
(* C10.  For every symbol table that _find_symbols can read and that holds *)
(* the OpenBLAS fingerprint openblas_get_config together with a symbol of  *)
(* the ddot family (ddot_, cblas_ddot, ddot, DDOT), the result is found =  *)
(* True with exactly the flags HAS_OPENBLAS, HAS_UNDERSCORES; and the      *)
(* fingerprints are tested in the order OpenBLAS, BLIS, MKL: without the   *)
(* OpenBLAS fingerprint, a table with the BLIS fingerprint gives the BLIS  *)
(* flags.                                                                  *)

ddot_family == {sym_ddot_, sym_cblas_ddot, sym_ddot, sym_DDOT}

C10_OpenBLASShortCircuit ==
    \A k \in 1..Len(inspected) :
      LET b == inspected[k].bin
      IN  (readable(b) /\ \E g \in ddot_family : has_symbol(b, g)) =>
            /\ has_symbol(b, sym_openblas) =>
                 inspected[k].res = <<TRUE, <<"HAS_OPENBLAS", "HAS_UNDERSCORES">> >>
            /\ (~has_symbol(b, sym_openblas) /\ has_symbol(b, sym_blis)) =>
                 inspected[k].res = <<TRUE, <<"HAS_BLIS", "HAS_UNDERSCORES">> >>

----------------------------------------------------------------------------
(* C11.  When both strategies fail for a file (the structured reading      *)
(* raises and readelf raises or is not there), _find_symbols returns       *)
(* found = True with flags None.                                           *)

C11_BothFailFoundTrue ==
    \A k \in 1..Len(inspected) :
        ~readable(inspected[k].bin) => inspected[k].res = <<TRUE, NoFlags>>

(* C11, amended.  When both strategies fail for a file, _find_symbols      *)
(* returns found = False with flags None, whatever the file holds; and     *)
(* found is False in no other case.                                        *)

C11_BothFailNotFound ==
    \A k \in 1..Len(inspected) :
        /\ ~readable(inspected[k].bin) => inspected[k].res = <<FALSE, NoFlags>>
        /\ readable(inspected[k].bin) => inspected[k].res[1]

C11_Witness ==
    /\ pc = "classified"
    /\ ~readable(inspected[1].bin)
    /\ has_symbol(inspected[1].bin, sym_openblas)
    /\ inspected[1].res = <<FALSE, NoFlags>>

----------------------------------------------------------------------------
(* The helper functions of find_blas called on their own.                  *)

\* what a call of a helper leaves alone
find_blas_state ==
    <<platform, allow_unidentified_blas, fs, blas_path, blas_file, flags_found, searched,
      inspected, cand, ci, prompts, np_env, incl_path, incl_file, hdr_env, raised>>

\* find_blas has not run
locals_unset ==
    /\ blas_path = None
    /\ blas_file = None
    /\ flags_found = <<>>
    /\ searched = <<>>
    /\ inspected = <<>>
    /\ cand = <<>>
    /\ ci = 0
    /\ prompts = <<>>
    /\ np_env = np_env_unset
    /\ incl_path = None
    /\ incl_file = None
    /\ hdr_env = {}
    /\ raised = no_exception

----------------------------------------------------------------------------
(* _deduplicate_paths on its own: a call on a list of paths as the path    *)
(* collection writes them, then a call on the result of the first.         *)

\* at most this many paths in the list
MaxPaths == 3

\* paths with both separators, repeated separators, and a trailing separator
RawPaths ==
    { <<"/", "a">>, <<"\\", "a">>, <<"/", "/", "a">>, <<"/", "a", "/">>,
      <<"/", "/", "/", "a", "\\", "/">>, <<"/", "b">>, <<"a", "\\", "\\", "b">>,
      <<"a", "/", "b">> }

PathLists == UNION {[1..n -> RawPaths] : n \in 0..MaxPaths}

InitDedup ==
    /\ platform = "linux"
    /\ allow_unidentified_blas = TRUE
    /\ fs = {}
    /\ pc = "dedup"
    /\ locals_unset
    /\ call \in {[fn |-> "_deduplicate_paths", args |-> x] : x \in PathLists}
    /\ ret = <<>>

\* ret holds the results: of the call on the arguments, then of the call on
\* that result
Deduplicate ==
    /\ pc = "dedup"
    /\ ret' = Append(ret, _deduplicate_paths(IF ret = <<>> THEN call.args
                                             ELSE ret[Len(ret)]))
    /\ pc' = IF ret = <<>> THEN "dedup" ELSE "deduplicated"
    /\ UNCHANGED <<call, find_blas_state>>

NextDedup == Deduplicate

SpecDedup == InitDedup /\ [][NextDedup]_vars

----------------------------------------------------------------------------
(* C12.  _deduplicate_paths is order-preserving and idempotent: its output *)
(* is the list of the normalized input paths with every path that equals   *)
(* an earlier one left out, in the order of the input; and applied to its  *)
(* own output it returns that output.                                      *)

first_occurrences(x) ==
    LET N == [i \in 1..Len(x) |-> normalize_path(x[i])]
        F == {i \in 1..Len(x) : \A j \in 1..(i - 1) : N[j] # N[i]}
    IN  [k \in 1..Cardinality(F) |->
            N[CHOOSE i \in F : Cardinality({j \in F : j <= i}) = k]]

C12_DedupIdempotent ==
    (call.fn = "_deduplicate_paths" /\ Len(ret) >= 1) =>
      /\ ret[1] = first_occurrences(call.args)
      /\ Len(ret) = 2 => ret[2] = ret[1]

\* three paths, the third equal to the first once normalized, the first changed
\* by the normalization
C12_Witness ==
    /\ call.fn = "_deduplicate_paths"
    /\ Len(call.args) = 3
    /\ Len(ret) = 2
    /\ Len(ret[1]) = 2
    /\ call.args[1] # ret[1][1]
    /\ call.args[3] # call.args[1]
    /\ normalize_path(call.args[3]) = ret[1][1]

----------------------------------------------------------------------------
(* C13.  Every path of the output of _deduplicate_paths has no backslash   *)
(* and no two slashes in a row, no two paths of the output are equal, and  *)
(* the output holds exactly the normal forms of the input paths, where the *)
(* normal form of a path is the path with each backslash made a slash and  *)
(* each slash that follows a slash removed.                                *)

normal_form(x) ==
    LET u == [i \in 1..Len(x) |-> IF x[i] = "\\" THEN "/" ELSE x[i]]
        K == {i \in 1..Len(x) : ~(i > 1 /\ u[i] = "/" /\ u[i - 1] = "/")}
    IN  [k \in 1..Cardinality(K) |->
            u[CHOOSE i \in K : Cardinality({j \in K : j <= i}) = k]]

C13_DedupNormalizes ==
    (call.fn = "_deduplicate_paths" /\ Len(ret) >= 1) =>
      LET out == ret[1]
      IN  /\ \A k \in 1..Len(out) :
                /\ \A i \in 1..Len(out[k]) : out[k][i] # "\\"
                /\ \A i \in 1..(Len(out[k]) - 1) : ~(out[k][i] = "/" /\ out[k][i + 1] = "/")
          /\ \A k, l \in 1..Len(out) : k # l => out[k] # out[l]
          /\ Range(out) = {normal_form(call.args[i]) : i \in 1..Len(call.args)}

\* two paths that differ in separator style and in repeated separators only
C13_Witness ==
    /\ call.fn = "_deduplicate_paths"
    /\ Len(call.args) = 2
    /\ call.args[1] = <<"a", "\\", "\\", "b">>
    /\ call.args[2] = <<"a", "/", "b">>
    /\ ret = << <<call.args[2]>> >>

----------------------------------------------------------------------------
(* search_blas_lib on its own: a call on a list of directories, a list of  *)
(* names and a list of suffixes (<<>>: None), over the files that exist.   *)

\* at most this many names in the list of names
MaxNames == 2

SearchNames == Range(FileNames["lin"].openblas1)

NameLists ==
    { N \in UNION {[1..n -> SearchNames] : n \in 0..MaxNames} :
        \A i, j \in 1..Len(N) : i # j => N[i] # N[j] }

SearchSuffs == { <<>>, <<openblas_suff[1]>>, openblas_suff }

SearchPathLists == { search_paths, <<search_paths[2], search_paths[1]>> }

\* "/usr/lib" + "openblas", the two strings one after the other
usr_libopenblas == usr_lib \o <<"open", "blas">>

SearchUniverse ==
    { join(d, n) : d \in {usr_lib, opt_lib, usr_lib_openblas, opt_lib_openblas,
                           usr_libopenblas},
                   n \in SearchNames }

InitSearch ==
    /\ platform = "linux"
    /\ allow_unidentified_blas = TRUE
    /\ fs \in SubsetsUpTo(SearchUniverse, MaxFiles)
    /\ pc = "search"
    /\ locals_unset
    /\ call \in {[fn |-> "search_blas_lib", args |-> a] :
                    a \in [paths : SearchPathLists, names : NameLists, suff : SearchSuffs]}
    /\ ret = <<>>

SearchBlasLib ==
    /\ pc = "search"
    /\ ret' = search_blas_lib(call.args.paths, call.args.names, call.args.suff)
    /\ pc' = "searched"
    /\ UNCHANGED <<call, find_blas_state>>

NextSearch == SearchBlasLib

SpecSearch == InitSearch /\ [][NextSearch]_vars

----------------------------------------------------------------------------
(* C14.  search_blas_lib(paths, names), without suffixes, returns (p, n)   *)
(* where n is the first name of names that some path holds and p the first *)
(* path of paths that holds n, and (None, None) when no path holds any of  *)
(* the names: the order of the names comes before the order of the paths.  *)

C14_FirstNameThenFirstPath ==
    (call.fn = "search_blas_lib" /\ pc = "searched" /\ call.args.suff = <<>>) =>
      LET P == call.args.paths
          N == call.args.names
          H == {h \in (1..Len(N)) \X (1..Len(P)) : join(P[h[2]], N[h[1]]) \in fs}
      IN  IF H = {} THEN ret = <<None, None>>
          ELSE \E h \in H :
                 /\ \A g \in H : h[1] < g[1] \/ (h[1] = g[1] /\ h[2] <= g[2])
                 /\ ret = <<P[h[2]], N[h[1]]>>

\* the first name is in the second path only, the second name in the first path
C14_Witness ==
    /\ call.fn = "search_blas_lib"
    /\ pc = "searched"
    /\ call.args.suff = <<>>
    /\ Len(call.args.names) = 2
    /\ fs = {join(call.args.paths[2], call.args.names[1]),
             join(call.args.paths[1], call.args.names[2])}
    /\ ret = <<call.args.paths[2], call.args.names[1]>>

----------------------------------------------------------------------------
(* C15.  With suffixes, a file that exists only in the sub-directory       *)
(* <path>/<suffix> of a path of the list that has no trailing separator is *)
(* found, and the directory returned is that sub-directory; and for one    *)
(* name every path as given is looked at before any path with a suffix.    *)

sub_directory(pt, s) == pt \o <<"/">> \o s

C15_SuffixSubdirectory ==
    (call.fn = "search_blas_lib" /\ pc = "searched" /\ call.args.suff # <<>>) =>
      LET P == call.args.paths
          N == call.args.names
          S == call.args.suff
      IN  /\ \A i \in 1..Len(P), j \in 1..Len(S), k \in 1..Len(N) :
                (P[i][Len(P[i])] # "/" /\ fs = {join(sub_directory(P[i], S[j]), N[k])}) =>
                    ret = <<sub_directory(P[i], S[j]), N[k]>>
          /\ \A i \in 1..Len(P) :
                (Len(N) >= 1 /\ join(P[i], N[1]) \in fs) =>
                    (ret[2] = N[1] /\ ret[1] \in Range(P))

----------------------------------------------------------------------------
(* Name generation on its own: process_fnames1 called on a list of base    *)
(* names, a prefix and an extension, and the ten name lists of find_blas,  *)
(* on each platform.                                                       *)

\* at most this many base names in the list
MaxBase == 2

\* base names with no dot, with one version component, and with two
BaseNames == { mkl_base[1], mkl_base[2], openblas_base[3],
               <<"mkl_rt", ".", "2", ".", "1">> }

BaseLists == UNION {[1..n -> BaseNames] : n \in 0..MaxBase}

InitNames ==
    /\ platform \in Platforms
    /\ allow_unidentified_blas = TRUE
    /\ fs = {}
    /\ pc = "names"
    /\ locals_unset
    /\ call \in {[fn |-> "process_fnames1", args |-> a] :
                    a \in [lst : BaseLists, pref : {<<>>, <<"lib">>}, ext : Range(ext)]}
               \cup {[fn |-> "file_names", args |-> <<>>]}
    /\ ret = <<>>

ProcessFnames1 ==
    /\ pc = "names"
    /\ call.fn = "process_fnames1"
    /\ ret' = process_fnames1(call.args.lst, call.args.pref, call.args.ext)
    /\ pc' = "named"
    /\ UNCHANGED <<call, find_blas_state>>

\* lines 91-108: the ten lists find_blas computes
NameGeneration ==
    /\ pc = "names"
    /\ call.fn = "file_names"
    /\ ret' = [dynamic |-> [MKL |-> mkl_file_names1, OpenBLAS |-> openblas_file_names1,
                            BLIS |-> blis_file_names1, ATLAS |-> atlas_file_names1,
                            GSL |-> gsl_file_names1],
               static  |-> [MKL |-> mkl_file_names2, OpenBLAS |-> openblas_file_names2,
                            BLIS |-> blis_file_names2, ATLAS |-> atlas_file_names2,
                            GSL |-> gsl_file_names2]]
    /\ pc' = "named"
    /\ UNCHANGED <<call, find_blas_state>>

NextNames == ProcessFnames1 \/ NameGeneration

SpecNames == InitNames /\ [][NextNames]_vars

----------------------------------------------------------------------------
(* C16.  Name generation is total: on every platform, for every vendor and *)
(* both forms, the list of names is not empty, has one name for each base  *)
(* name of the vendor (and two more for the Windows aliases of the dynamic *)
(* lists other than MKL's), and holds a name made of the platform's prefix *)
(* ('' on Windows, 'lib' elsewhere), a base name and the form's extension. *)

base_names(form, vendor) ==
    CASE vendor = "MKL" -> << <<"mkl_rt">>, <<"mkl_rt", ".", "2">>, <<"mkl_rt", ".", "1">> >>
      [] vendor = "OpenBLAS" ->
           IF form = "dynamic"
           THEN << <<"open", "blas">>, <<"open", "blas", "64">>, <<"open", "blas", "64", "_">> >>
           ELSE << <<"open", "blas">> >>
      [] vendor = "BLIS" -> << <<"blis">>, <<"blis", "-mt">> >>
      [] vendor = "ATLAS" -> << <<"atlas">>, <<"t", "atlas">>, <<"s", "atlas">> >>
      [] OTHER -> << <<"gsl", "c", "blas">> >>

os_prefix == IF platform = "win32" THEN <<>> ELSE <<"lib">>

form_extension(form) ==
    CASE platform = "win32" -> IF form = "dynamic" THEN <<".", "lib">> ELSE <<".", "dll">>
      [] platform = "darwin" -> IF form = "dynamic" THEN <<".", "dylib">> ELSE <<".", "a">>
      [] OTHER -> IF form = "dynamic" THEN <<".", "so">> ELSE <<".", "a">>

C16_NameGenerationTotal ==
    (call.fn = "file_names" /\ pc = "named") =>
      \A form \in Forms, vendor \in Vendors :
        LET L == ret[form][vendor]
            B == base_names(form, vendor)
        IN  /\ L # <<>>
            /\ Len(L) = Len(B) + (IF platform = "win32" /\ form = "dynamic" /\ vendor # "MKL"
                                  THEN 2 ELSE 0)
            /\ \E i \in 1..Len(L), k \in 1..Len(B) :
                  L[i] = os_prefix \o B[k] \o form_extension(form)

C16_Witness ==
    /\ call.fn = "file_names"
    /\ pc = "named"
    /\ platform = "win32"
    /\ Len(ret["dynamic"]["OpenBLAS"]) = 5
    /\ ret["static"]["GSL"] = << <<"gsl", "c", "blas", ".", "dll">> >>

----------------------------------------------------------------------------
(* C17.  process_fnames1 gives one name for each base name, in order: for  *)
(* a base name with one dot, on a platform other than Windows and Darwin,  *)
(* the prefix, the part before the dot, the extension, a dot and the part  *)
(* after the dot ('libmkl_rt.so.2'); in every other case, and so for a     *)
(* base name without a dot, the prefix, the base name and the extension.   *)

C17_VersionedNames ==
    (call.fn = "process_fnames1" /\ pc = "named") =>
      LET lst == call.args.lst
          pr  == call.args.pref
          e   == call.args.ext
      IN  /\ Len(ret) = Len(lst)
          /\ \A i \in 1..Len(lst) :
                LET nm == lst[i]
                    D  == {k \in 1..Len(nm) : nm[k] = "."}
                IN  IF Cardinality(D) = 1 /\ platform \notin {"win32", "darwin"}
                    THEN \E d \in D :
                           ret[i] = pr \o SubSeq(nm, 1, d - 1) \o e \o <<".">>
                                    \o SubSeq(nm, d + 1, Len(nm))
                    ELSE ret[i] = pr \o nm \o e

C17_Witness ==
    /\ call.fn = "process_fnames1"
    /\ pc = "named"
    /\ platform = "linux"
    /\ call.args.lst = << <<"mkl_rt", ".", "2">>, <<"mkl_rt">> >>
    /\ ret = << <<"lib", "mkl_rt", ".", "so", ".", "2">>, <<"lib", "mkl_rt", ".", "so">> >>

----------------------------------------------------------------------------
(* C18.  The only exception find_blas lets out is the not-found            *)
(* ValueError, and only once the whole chain is exhausted, the numpy and   *)
(* the scipy last resorts included: a failure while reading a binary, a    *)
(* header file or the answer of the user is caught and the search goes on. *)

C18_OnlyNotFoundPropagates ==
    pc = "error" =>
      /\ raised = [type |-> "ValueError", msg |-> err_msg]
      /\ np_env.numpy # "unset"
      /\ np_env.scipy # "unset"

----------------------------------------------------------------------------
(* C20.  In the name-pattern scan with allow_unidentified_blas true, the   *)
(* prompt is shown exactly once for each candidate that was reached and    *)
(* could not be inspected, in the order of the candidates, never after a   *)
(* candidate was accepted, and each prompt ends with an answer that        *)
(* accepts or rejects the file.                                            *)

cand_index(pr) ==
    CHOOSE i \in 1..Len(cand) : cand[i].path = pr.path /\ cand[i].file = pr.file

\* the candidates check_is_blas has returned for
decided(i) == i < ci \/ (i = ci /\ pc \notin {"check", "prompt"})

\* the candidates check_is_blas could not inspect
uninspected(i) ==
    \/ platform3 = "win"
    \/ \E k \in 1..Len(inspected) :
          /\ inspected[k].path = cand[i].path
          /\ inspected[k].file = cand[i].file
          /\ ~inspected[k].res[1]

C20_PromptOncePerCandidate ==
    allow_unidentified_blas =>
      /\ \A k, l \in 1..Len(prompts) :
            k < l => cand_index(prompts[k]) < cand_index(prompts[l])
      /\ \A i \in 1..Len(cand) :
            (decided(i) /\ uninspected(i)) =>
               \E k \in 1..Len(prompts) : cand_index(prompts[k]) = i
      /\ \A k \in 1..(Len(prompts) - 1) : prompts[k].answer # "y"
      /\ \A k \in 1..Len(prompts) :
            \/ prompts[k].answer \in {"y", "n"}
            \/ k = Len(prompts) /\ pc = "prompt"
            \/ k < Len(prompts) /\ cand_index(prompts[k + 1]) = cand_index(prompts[k])

----------------------------------------------------------------------------
(* C21.  The library search is a chain of stages (dynamic vendor pass,     *)
(* static vendor pass, generic-name pass, name-pattern scan, numpy and     *)
(* scipy last resort).  Once a stage has set blas_file, no later stage of  *)
(* the chain runs or changes blas_path, blas_file or the flags; header     *)
(* resolution then runs exactly once; the not-found error is raised only   *)
(* after every stage has failed.                                           *)

library_stages == {"dynamic", "static", "generic", "scan", "check", "prompt", "numpy",
                   "scipy"}

\* what the stages of the library search read and write
library_state ==
    <<blas_path, blas_file, flags_found, searched, inspected, cand, ci, prompts, np_env>>

\* every stage has run and none has kept a library
chain_exhausted ==
    /\ Len(searched) = Len(vendor_pass) + 2
    /\ \A k \in 1..Len(searched) :
         searched[k] = IF k <= Len(vendor_pass)
                       THEN <<vendor_pass[k].form, vendor_pass[k].vendor>>
                       ELSE <<"generic", IF k = Len(vendor_pass) + 1 THEN "cblas" ELSE "blas">>
    /\ ci > Len(cand) \/ cand = <<>>
    /\ \A k \in 1..Len(prompts) : prompts[k].answer # "y"
    /\ np_env.numpy # "unset"
    /\ np_env.scipy # "unset"

\* header resolution is entered with a library, is one step, and nothing follows it
header_once ==
    /\ pc' = "header" => blas_file' # None
    /\ pc = "header" =>
         /\ pc' \in {"done", "error"}
         /\ UNCHANGED <<blas_path, blas_file, searched, inspected, cand, ci, prompts, np_env>>
    /\ pc \in {"done", "error"} => UNCHANGED vars

not_found_last ==
    raised'.type = "ValueError" => raised' = [type |-> "ValueError", msg |-> err_msg]
                                   /\ chain_exhausted'

C21_TerminalOnceSet ==
    [][/\ (blas_file # None /\ pc \in library_stages) => UNCHANGED library_state
       /\ header_once
       /\ not_found_last]_vars

(* C21, amended.  A stage is terminal once it has kept a library: no later *)
(* stage runs or changes blas_path, blas_file or the flags, header         *)
(* resolution runs exactly once, and the not-found error is raised only    *)
(* after every stage has failed.  The numpy stage sets blas_file before it *)
(* inspects the bundled file; when the file is read and shows no known     *)
(* symbol the stage has failed, and the scipy stage runs with blas_file    *)
(* still set and overwrites it.                                            *)

\* the numpy stage has set blas_file and then refused the file (line 1065)
numpy_refused ==
    /\ pc = "scipy"
    /\ blas_file = np_file
    /\ blas_path = np_path
    /\ np_env.numpy = "present"
    /\ inspected[Len(inspected)].file = np_file
    /\ inspected[Len(inspected)].res = <<TRUE, NoFlags>>

C21_TerminalOnceKept ==
    [][/\ (blas_file # None /\ pc \in library_stages \ {"scipy"}) =>
             UNCHANGED library_state
       /\ (blas_file # None /\ pc = "scipy") =>
             /\ numpy_refused
             /\ UNCHANGED <<searched, cand, ci, prompts>>
             /\ SubSeq(flags_found', 1, Len(flags_found)) = flags_found
       /\ header_once
       /\ not_found_last]_vars

C21_Witness ==
    /\ pc = "done"
    /\ np_env.numpy = "present"
    /\ blas_file = scipy_file
    /\ Len(searched) = Len(vendor_pass) + 2
    /\ Len(inspected) >= 2
    /\ inspected[Len(inspected) - 1].file = np_file

----------------------------------------------------------------------------
(* The collection of the candidate directories, find_blas lines 364-804:   *)
(* the fixed POSIX locations, which depend on the width of the process,    *)
(* and the expansion of the PEP518 overlay directories.  A path is one     *)
(* token per component, "/" a token of its own; "overlay" and "Overlay"    *)
(* are tokens wherever they occur in a component.                          *)

\* lines 364-372: platform_module.architecture()[0] as the suffix the paths use
sys_arch_of(bits) ==
    CASE bits = "64bit"  -> <<"64">>
      [] bits = "32bit"  -> <<"32">>
      [] bits = "128bit" -> <<"128">>
      [] OTHER           -> <<>>

\* lines 375-407: the fixed library directories
fixed_candidate_paths(sys_arch) ==
    << <<"/", "opt", "/", "intel", "/", "lib">>,
       <<"/", "opt", "/", "intel", "/", "lib", "/", "intel64">>,
       <<"/", "opt", "/", "intel", "/", "mkl", "/", "lib">>,
       <<"/", "opt", "/", "intel", "/", "mkl", "/", "lib", "/", "intel">> \o sys_arch,
       <<"/", "opt", "/", "intel", "/", "oneapi", "/", "mkl", "/", "latest", "/", "lib">>,
       <<"/", "opt", "/", "intel", "/", "oneapi", "/", "mkl", "/", "latest", "/", "lib">> \o sys_arch,
       <<"/", "usr", "/", "local", "/", "intel", "/", "lib">>,
       <<"/", "usr", "/", "local", "/", "intel", "/", "mkl", "/", "lib">>,
       <<"/", "usr", "/", "local", "/", "intel", "/", "lib", "/", "intel">> \o sys_arch,
       <<"/", "usr", "/", "local", "/", "intel", "/", "mkl", "/", "lib", "/", "intel">> \o sys_arch,
       <<"/", "usr", "/", "local", "/", "intel", "/", "oneapi", "/", "mkl", "/", "latest", "/", "lib">>,
       <<"/", "usr", "/", "local", "/", "intel", "/", "oneapi", "/", "mkl", "/", "latest", "/", "lib", "/", "intel">> \o sys_arch,
       <<"/", "usr", "/", "lib64", "/", "atlas">>,
       <<"/", "usr", "/", "lib", "/", "atlas">>,
       <<"/", "usr", "/", "local", "/", "lib64", "/", "atlas">>,
       <<"/", "usr", "/", "local", "/", "lib", "/", "atlas">>,
       <<"/", "usr", "/", "lib64", "/", "gsl">>,
       <<"/", "usr", "/", "lib", "/", "gsl">>,
       <<"/", "usr", "/", "local", "/", "lib64", "/", "gsl">>,
       <<"/", "usr", "/", "local", "/", "lib", "/", "gsl">> >>
    \o
    << <<"/", "usr", "/", "lib", "/", "x86">> \o (IF sys_arch = <<"64">> THEN <<"_">> ELSE <<>>) \o sys_arch
          \o <<"-linux-gnu">>,
       <<"/", "usr", "/", "lib">>,
       <<"/", "usr", "/", "local", "/", "lib">>,
       <<"/", "lib64">>,
       <<"/", "lib">>,
       <<"/", "usr", "/", "lib64">>,
       <<"/", "usr", "/", "local", "/", "lib64">>,
       <<"/", "opt", "/", "local", "/", "lib64">>,
       <<"/", "opt", "/", "local", "/", "lib">> >>

\* lines 419-431
fixed_mkl_include_paths(sys_arch) ==
    << <<"/", "opt", "/", "intel", "/", "include">>,
       <<"/", "opt", "/", "intel", "/", "mkl", "/", "include">>,
       <<"/", "opt", "/", "intel", "/", "mkl", "/", "include", "/", "intel">> \o sys_arch,
       <<"/", "usr", "/", "local", "/", "intel", "/", "include">>,
       <<"/", "usr", "/", "local", "/", "intel", "/", "mkl", "/", "include">>,
       <<"/", "usr", "/", "local", "/", "intel", "/", "include", "/", "intel">> \o sys_arch,
       <<"/", "usr", "/", "local", "/", "intel", "/", "mkl", "/", "include", "/", "intel">> \o sys_arch,
       <<"/", "opt", "/", "intel", "/", "oneapi", "/", "mkl", "/", "latest", "/", "include">>,
       <<"/", "opt", "/", "intel", "/", "oneapi", "/", "mkl", "/", "latest", "/", "include", "/", "oneapi">>,
       <<"/", "usr", "/", "local", "/", "intel", "/", "oneapi", "/", "mkl", "/", "latest", "/", "include">>,
       <<"/", "usr", "/", "local", "/", "intel", "/", "oneapi", "/", "mkl", "/", "latest", "/", "include", "/", "intel">> \o sys_arch >>

\* lines 433-438
fixed_atlas_include_paths ==
    << <<"/", "usr", "/", "lib", "/", "atlas">>,
       <<"/", "usr", "/", "lib64", "/", "atlas">>,
       <<"/", "usr", "/", "lib", "/", "atlas", "/", "include">>,
       <<"/", "usr", "/", "lib64", "/", "atlas", "/", "include">> >>

\* lines 439-443
fixed_gsl_include_paths ==
    << <<"/", "usr", "/", "include", "/", "gsl">>,
       <<"/", "usr", "/", "local", "/", "include", "/", "gsl">>,
       <<"/", "opt", "/", "local", "/", "include", "/", "gsl">> >>

\* lines 444-451: the first entry is the conditional expression
\* ("/usr/include/x86" + "_") if sys_arch == "64" else ("" + sys_arch + "-linux-gnu")
fixed_system_include_paths(sys_arch) ==
    << IF sys_arch = <<"64">> THEN <<"/", "usr", "/", "include", "/", "x86">> \o <<"_">>
      ELSE <<>> \o sys_arch \o <<"-linux-gnu">>,
       <<"/", "usr", "/", "include">>,
       <<"/", "usr", "/", "local", "/", "include">>,
       <<"/", "opt", "/", "local", "/", "include">> >>

\* the lists the path collection fills
no_paths ==
    [candidate_paths |-> <<>>, mkl_include_paths |-> <<>>, openblas_include_paths |-> <<>>,
     blis_include_paths |-> <<>>, atlas_include_paths |-> <<>>, gsl_include_paths |-> <<>>,
     system_include_paths |-> <<>>]

\* lst += more, for every list of the record
extend(L, more) == [f \in DOMAIN L |-> L[f] \o more[f]]

RECURSIVE Flatten(_)
Flatten(ss) == IF ss = <<>> THEN <<>> ELSE Head(ss) \o Flatten(Tail(ss))

\* os.listdir(pt) as the loop walks it (the model puts at most one entry in a
\* directory it lists, so the order is not in question)
RECURSIVE listed_from(_)
listed_from(S) ==
    IF S = {} THEN <<>>
    ELSE LET x == CHOOSE y \in S : TRUE IN <<x>> \o listed_from(S \ {x})

listed(pt) == listed_from(listdir(pt))

\* lines 408-417: the versioned folders of AMD's BLIS
amd_hardcoded_path == <<"/", "opt", "/", "AMD", "/", "aocl", "/">>

amd_paths ==
    LET dd == SelectSeq([k \in 1..Len(listed(amd_hardcoded_path)) |->
                            join(amd_hardcoded_path, listed(amd_hardcoded_path)[k])],
                        exists)
    IN  IF ~exists(amd_hardcoded_path) THEN no_paths
        ELSE [no_paths EXCEPT
                !.candidate_paths =
                    Flatten([k \in 1..Len(dd) |-> <<dd[k], join(dd[k], <<"lib">>)>>]),
                !.blis_include_paths =
                    [k \in 1..Len(dd) |-> join(dd[k], <<"amd-", "blis">>)]]

\* lines 453-488: Accelerate and the folders of homebrew, on Darwin
accelerate_path ==
    <<"/", "System", "/", "Library", "/", "Frameworks", "/", "Accelerate.framework", "/",
      "Versions", "/", "Current", "/", "Frameworks", "/", "vecLib.framework">>

homebrew_libs == << <<"open", "blas">>, <<"blis">>, <<"atlas">>, <<"blas">> >>

\* lines 463-470 and 481-488: the include list of blas_lib gets the path
homebrew_include(blas_lib, include_path_this) ==
    [no_paths EXCEPT
        ![CASE blas_lib = <<"open", "blas">> -> "openblas_include_paths"
            [] blas_lib = <<"blis">>         -> "blis_include_paths"
            [] blas_lib = <<"atlas">>        -> "atlas_include_paths"
            [] OTHER                          -> "system_include_paths"]
        = <<include_path_this>>]

\* one turn of the loop of line 456
homebrew_paths_of(blas_lib) ==
    LET path_homebrew_blas == <<"/", "opt", "/", "homebrew", "/", "opt", "/">> \o blas_lib
        versioned == <<"/", "opt", "/", "homebrew", "/", "Cellar", "/">> \o blas_lib
        include_path_this == join(path_homebrew_blas, <<"include">>)
        include_found == IF exists(include_path_this)
                         THEN homebrew_include(blas_lib, include_path_this)
                         ELSE no_paths
        lib_of(d) == IF exists(join(d, <<"lib">>))
                     THEN [no_paths EXCEPT !.candidate_paths = <<join(d, <<"lib">>)>>]
                     ELSE no_paths
        subs == SelectSeq([k \in 1..Len(listed(versioned)) |->
                              join(versioned, listed(versioned)[k])], exists)
        RECURSIVE cellar(_, _)
        cellar(L, k) ==
            IF k > Len(subs) THEN L
            ELSE cellar(extend(extend(L, lib_of(subs[k])), include_found), k + 1)
    IN  cellar(IF exists(path_homebrew_blas)
               THEN extend(lib_of(path_homebrew_blas), include_found)
               ELSE no_paths,
               IF exists(versioned) THEN 1 ELSE Len(subs) + 1)

RECURSIVE homebrew_paths(_, _)
homebrew_paths(L, k) ==
    IF k > Len(homebrew_libs) THEN L
    ELSE homebrew_paths(extend(L, homebrew_paths_of(homebrew_libs[k])), k + 1)

\* lines 374-488, the branch platform[:3] != "win", on the lists L collected so far
posix_paths(p3, sys_arch, L) ==
    LET fixed == [no_paths EXCEPT
                    !.candidate_paths = fixed_candidate_paths(sys_arch),
                    !.mkl_include_paths = fixed_mkl_include_paths(sys_arch),
                    !.atlas_include_paths = fixed_atlas_include_paths,
                    !.gsl_include_paths = fixed_gsl_include_paths,
                    !.system_include_paths = fixed_system_include_paths(sys_arch)]
        amd == extend(extend(L, [no_paths EXCEPT !.candidate_paths = fixed.candidate_paths]),
                      amd_paths)
        incl == extend(amd, [fixed EXCEPT !.candidate_paths = <<>>])
    IN  IF p3 = "dar"
        THEN homebrew_paths(extend(incl, [no_paths EXCEPT
                                            !.candidate_paths = <<accelerate_path>>]), 1)
        ELSE incl

\* What one overlay root adds to each list, lines 588-802, in the order of the code

\* lines 588-730: what one overlay root adds to paths_pep518
pep518_candidate_paths(clean_path) ==
    << clean_path,
       clean_path \o <<"/", "lib">>,
       clean_path \o <<"/", "lib", "/", "gsl">>,
       clean_path \o <<"/", "lib", "/", "gsl", "/", "lib">>,
       clean_path \o <<"/", "lib", "/", "open", "blas">>,
       clean_path \o <<"/", "lib", "/", "open", "blas", "/", "lib">>,
       clean_path \o <<"/", "lib", "/", "blis">>,
       clean_path \o <<"/", "lib", "/", "blis", "/", "lib">>,
       clean_path \o <<"/", "lib", "/", "open", "blas", "-openmp">>,
       clean_path \o <<"/", "lib", "/", "open", "blas", "-openmp", "/", "lib">>,
       clean_path \o <<"/", "lib", "/", "blis", "-openmp">>,
       clean_path \o <<"/", "lib", "/", "blis", "-openmp", "/", "lib">>,
       clean_path \o <<"/", "lib", "/", "open", "blas", "-pthread">>,
       clean_path \o <<"/", "lib", "/", "open", "blas", "-pthread", "/", "lib">>,
       clean_path \o <<"/", "lib", "/", "blis", "-pthread">>,
       clean_path \o <<"/", "lib", "/", "blis", "-pthread", "/", "lib">>,
       clean_path \o <<"/", "lib", "/", "open", "blas", "-serial">>,
       clean_path \o <<"/", "lib", "/", "open", "blas", "-serial", "/", "lib">>,
       clean_path \o <<"/", "lib", "/", "blis", "-serial">>,
       clean_path \o <<"/", "lib", "/", "blis", "-serial", "/", "lib">>,
       clean_path \o <<"/", "lib", "/", "gsl", "c", "blas">>,
       clean_path \o <<"/", "lib", "/", "c", "blas">>,
       clean_path \o <<"/", "lib", "/", "blas">>,
       clean_path \o <<"/", "lib", "/", "mkl">>,
       clean_path \o <<"/", "lib", "/", "mkl", "/", "lib">>,
       clean_path \o <<"/", "lib", "/", "mkl", "/", "lib", "/", "intel">>,
       clean_path \o <<"/", "lib", "/", "atlas">>,
       clean_path \o <<"/", "lib", "/", "atlas", "/", "lib">>,
       clean_path \o <<"/", "lib", "/", "lib", "atlas">>,
       clean_path \o <<"/", "lib", "/", "lib", "atlas", "/", "lib">>,
       clean_path \o <<"/", "Lib">>,
       clean_path \o <<"/", "Lib", "/", "gsl">>,
       clean_path \o <<"/", "Lib", "/", "gsl", "/", "lib">>,
       clean_path \o <<"/", "Lib", "/", "open", "blas">>,
       clean_path \o <<"/", "Lib", "/", "open", "blas", "/", "lib">>,
       clean_path \o <<"/", "Lib", "/", "blis">>,
       clean_path \o <<"/", "Lib", "/", "blis", "/", "lib">>,
       clean_path \o <<"/", "Lib", "/", "open", "blas", "-openmp">>,
       clean_path \o <<"/", "Lib", "/", "open", "blas", "-openmp", "/", "lib">>,
       clean_path \o <<"/", "Lib", "/", "open", "blas", "-pthread">>,
       clean_path \o <<"/", "Lib", "/", "open", "blas", "-pthread", "/", "lib">>,
       clean_path \o <<"/", "Lib", "/", "open", "blas", "-serial">>,
       clean_path \o <<"/", "Lib", "/", "open", "blas", "-serial", "/", "lib">>,
       clean_path \o <<"/", "Lib", "/", "blis", "-openmp">>,
       clean_path \o <<"/", "Lib", "/", "blis", "-openmp", "/", "lib">>,
       clean_path \o <<"/", "Lib", "/", "blis", "-pthread">>,
       clean_path \o <<"/", "Lib", "/", "blis", "-pthread", "/", "lib">>,
       clean_path \o <<"/", "Lib", "/", "blis", "-serial">>,
       clean_path \o <<"/", "Lib", "/", "blis", "-serial", "/", "lib">>,
       clean_path \o <<"/", "Lib", "/", "gsl", "c", "blas">>,
       clean_path \o <<"/", "Lib", "/", "c", "blas">>,
       clean_path \o <<"/", "Lib", "/", "blas">>,
       clean_path \o <<"/", "Lib", "/", "mkl">>,
       clean_path \o <<"/", "Lib", "/", "mkl", "/", "lib">>,
       clean_path \o <<"/", "Lib", "/", "mkl", "/", "lib", "/", "intel">>,
       clean_path \o <<"/", "Lib", "/", "atlas">>,
       clean_path \o <<"/", "Lib", "/", "atlas", "/", "lib">>,
       clean_path \o <<"/", "Lib", "/", "lib", "atlas">>,
       clean_path \o <<"/", "Lib", "/", "lib", "atlas", "/", "lib">> >>

\* lines 593-737: what one overlay root adds to gsl_include_paths
pep518_gsl_include_paths(clean_path) ==
    << clean_path \o <<"/", "lib", "/", "gsl", "/", "include">>,
       clean_path \o <<"/", "Lib", "/", "gsl", "/", "include">>,
       clean_path \o <<"/", "include", "/", "gsl">>,
       clean_path \o <<"/", "include", "/", "gsl", "/", "include">>,
       clean_path \o <<"/", "include", "/", "gsl", "c", "blas">> >>

\* lines 616-775: what one overlay root adds to openblas_include_paths
pep518_openblas_include_paths(clean_path) ==
    << clean_path \o <<"/", "lib", "/", "open", "blas", "/", "include">>,
       clean_path \o <<"/", "lib", "/", "open", "blas", "-openmp", "/", "include">>,
       clean_path \o <<"/", "lib", "/", "open", "blas", "-pthread", "/", "include">>,
       clean_path \o <<"/", "lib", "/", "open", "blas", "-serial", "/", "include">>,
       clean_path \o <<"/", "Lib", "/", "open", "blas", "/", "include">>,
       clean_path \o <<"/", "Lib", "/", "open", "blas", "-openmp", "/", "include">>,
       clean_path \o <<"/", "Lib", "/", "open", "blas", "-pthread", "/", "include">>,
       clean_path \o <<"/", "Lib", "/", "open", "blas", "-serial", "/", "include">>,
       clean_path \o <<"/", "include", "/", "open", "blas">>,
       clean_path \o <<"/", "include", "/", "open", "blas", "/", "include">>,
       clean_path \o <<"/", "include", "/", "open", "blas", "-openmp">>,
       clean_path \o <<"/", "include", "/", "open", "blas", "-openmp", "/", "include">>,
       clean_path \o <<"/", "include", "/", "open", "blas", "-pthread">>,
       clean_path \o <<"/", "include", "/", "open", "blas", "-pthread", "/", "include">>,
       clean_path \o <<"/", "include", "/", "open", "blas", "-serial">>,
       clean_path \o <<"/", "include", "/", "open", "blas", "-serial", "/", "include">> >>

\* lines 628-794: what one overlay root adds to blis_include_paths
pep518_blis_include_paths(clean_path) ==
    << clean_path \o <<"/", "lib", "/", "blis", "/", "include">>,
       clean_path \o <<"/", "lib", "/", "blis", "-openmp", "/", "include">>,
       clean_path \o <<"/", "lib", "/", "blis", "-pthread", "/", "include">>,
       clean_path \o <<"/", "lib", "/", "blis", "-serial", "/", "include">>,
       clean_path \o <<"/", "lib", "/", "amd-", "blis", "/", "include">>,
       clean_path \o <<"/", "Lib", "/", "blis", "/", "include">>,
       clean_path \o <<"/", "Lib", "/", "blis", "-openmp", "/", "include">>,
       clean_path \o <<"/", "Lib", "/", "blis", "-pthread", "/", "include">>,
       clean_path \o <<"/", "Lib", "/", "blis", "-serial", "/", "include">>,
       clean_path \o <<"/", "Lib", "/", "amd-", "blis", "/", "include">>,
       clean_path \o <<"/", "include", "/", "blis">>,
       clean_path \o <<"/", "include", "/", "blis", "/", "include">>,
       clean_path \o <<"/", "include", "/", "blis", "-openmp">>,
       clean_path \o <<"/", "include", "/", "blis", "-openmp", "/", "include">>,
       clean_path \o <<"/", "include", "/", "blis", "-pthread">>,
       clean_path \o <<"/", "include", "/", "blis", "-pthread", "/", "include">>,
       clean_path \o <<"/", "include", "/", "blis", "-serial">>,
       clean_path \o <<"/", "include", "/", "blis", "-serial", "/", "include">>,
       clean_path \o <<"/", "include", "/", "amd-", "blis">> >>

\* lines 649-747: what one overlay root adds to mkl_include_paths
pep518_mkl_include_paths(clean_path) ==
    << clean_path \o <<"/", "lib", "/", "mkl", "/", "include">>,
       clean_path \o <<"/", "Lib", "/", "mkl", "/", "include">>,
       clean_path \o <<"/", "include", "/", "mkl">>,
       clean_path \o <<"/", "include", "/", "mkl", "/", "lib">>,
       clean_path \o <<"/", "include", "/", "mkl", "/", "lib", "/", "intel">>,
       clean_path \o <<"/", "include", "/", "mkl", "/", "include">> >>

\* lines 651-802: what one overlay root adds to atlas_include_paths
pep518_atlas_include_paths(clean_path) ==
    << clean_path \o <<"/", "lib", "/", "atlas", "/", "include">>,
       clean_path \o <<"/", "lib", "/", "lib", "atlas", "/", "include">>,
       clean_path \o <<"/", "Lib", "/", "atlas", "/", "include">>,
       clean_path \o <<"/", "Lib", "/", "lib", "atlas", "/", "include">>,
       clean_path \o <<"/", "include", "/", "atlas">>,
       clean_path \o <<"/", "include", "/", "atlas", "/", "include">>,
       clean_path \o <<"/", "include", "/", "lib", "atlas">>,
       clean_path \o <<"/", "lib", "/", "lib", "atlas", "/", "include">> >>

\* lines 732-739: what one overlay root adds to system_include_paths
pep518_system_include_paths(clean_path) ==
    << clean_path \o <<"/", "include">>,
       clean_path \o <<"/", "include", "/", "c", "blas">>,
       clean_path \o <<"/", "include", "/", "blas">> >>

\* line 585: re.search(r"[Oo]verlay", path)
has_overlay(path) == \E i \in 1..Len(path) : path[i] \in {"overlay", "Overlay"}

\* line 586: re.sub(r"^(.*[Oo]verlay).*$", r"\1", path), up to the last occurrence
overlay_root(path) ==
    LET I == {i \in 1..Len(path) : path[i] \in {"overlay", "Overlay"}}
    IN  IF I = {} THEN path
        ELSE SubSeq(path, 1, CHOOSE i \in I : \A j \in I : j <= i)

\* lines 584-802: the loop over candidate_paths, as what it adds to each list
pep518_paths(candidate_paths) ==
    LET roots == [k \in 1..Len(SelectSeq(candidate_paths, has_overlay)) |->
                     overlay_root(SelectSeq(candidate_paths, has_overlay)[k])]
        each(sub(_)) == Flatten([k \in 1..Len(roots) |-> sub(roots[k])])
    IN  [candidate_paths        |-> each(pep518_candidate_paths),
         mkl_include_paths      |-> each(pep518_mkl_include_paths),
         openblas_include_paths |-> each(pep518_openblas_include_paths),
         blis_include_paths     |-> each(pep518_blis_include_paths),
         atlas_include_paths    |-> each(pep518_atlas_include_paths),
         gsl_include_paths      |-> each(pep518_gsl_include_paths),
         system_include_paths   |-> each(pep518_system_include_paths)]

\* an expansion that forgets its switch
add_pep518_paths_always(allow_pep518_paths, L) ==
    extend(L, pep518_paths(L.candidate_paths))

\* lines 582-804: the expansion, under its switch
add_pep518_paths(allow_pep518_paths, L) ==
    IF allow_pep518_paths THEN extend(L, pep518_paths(L.candidate_paths)) ELSE L

----------------------------------------------------------------------------
(* The path collection on its own, on a POSIX platform: from the           *)
(* directories gathered from the environment (numpy, sys.path, PATH) to    *)
(* the lists after the overlay expansion.                                  *)

\* at most this many directories come from the environment
MaxEnvPaths == 2

EnvPaths ==
    { <<"/", "home", "/", "u", "/", "venv", "/", "lib">>,
      <<"/", "tmp", "/", "pip-build-env", "/", "overlay", "/", "lib", "/", "python3">>,
      <<"/", "tmp", "/", "Overlay">>,
      <<"/", "home", "/", "overlay", "_user", "/", "lib">>,
      <<"/", "tmp", "/", "overlay", "/", "x", "/", "Overlay", "/", "lib">>,
      <<"/", "opt", "/", "OVERLAY", "/", "lib">> }

EnvPathLists ==
    { c \in UNION {[1..n -> EnvPaths] : n \in 0..MaxEnvPaths} :
        \A i, j \in 1..Len(c) : i # j => c[i] # c[j] }

Widths == {"64bit", "32bit", ""}

\* the directories that exist, among those the collection looks for
aocl_40 == join(amd_hardcoded_path, <<"4.0">>)
homebrew_opt_openblas == <<"/", "opt", "/", "homebrew", "/", "opt", "/", "open", "blas">>
homebrew_opt_blis == <<"/", "opt", "/", "homebrew", "/", "opt", "/", "blis">>
homebrew_cellar_blis == <<"/", "opt", "/", "homebrew", "/", "Cellar", "/", "blis">>

DirSets ==
    { {},
      {amd_hardcoded_path, aocl_40},
      {homebrew_opt_openblas, join(homebrew_opt_openblas, <<"lib">>),
       join(homebrew_opt_openblas, <<"include">>)},
      {homebrew_opt_blis, join(homebrew_opt_blis, <<"include">>), homebrew_cellar_blis,
       join(homebrew_cellar_blis, <<"1.0">>),
       join(join(homebrew_cellar_blis, <<"1.0">>), <<"lib">>)} }

InitPaths ==
    /\ platform \in {"linux", "darwin"}
    /\ allow_unidentified_blas = TRUE
    /\ fs \in DirSets
    /\ pc = "fixed"
    /\ locals_unset
    /\ call \in {[fn |-> "collect_paths", args |-> a] :
                    a \in [bits : Widths, allow_pep518_paths : BOOLEAN,
                           candidate_paths : EnvPathLists]}
    /\ ret = <<>>

\* lines 364-487: ret[1] is the lists before the overlay step
FixedPaths ==
    /\ pc = "fixed"
    /\ ret' = <<posix_paths(platform3, sys_arch_of(call.args.bits),
                            [no_paths EXCEPT !.candidate_paths = call.args.candidate_paths])>>
    /\ pc' = "overlay"
    /\ UNCHANGED <<call, find_blas_state>>

\* lines 581-804: ret[2] is the lists after it
Overlay ==
    /\ pc = "overlay"
    /\ ret' = Append(ret, add_pep518_paths(call.args.allow_pep518_paths, ret[1]))
    /\ pc' = "collected"
    /\ UNCHANGED <<call, find_blas_state>>

NextPaths == FixedPaths \/ Overlay

SpecPaths == InitPaths /\ [][NextPaths]_vars

----------------------------------------------------------------------------
(* C22.  The overlay expansion is gated by allow_pep518_paths.  When it is *)
(* False, the candidate paths and every include-path list are after the    *)
(* step what they were before it.  When it is True, every list keeps what  *)
(* it held, in the same order, and what is added comes after it; for every *)
(* candidate path that contains 'overlay' or 'Overlay', the overlay root   *)
(* and its sub-paths lib/<vendor> and Lib/<vendor> for each of MKL,        *)
(* OpenBLAS, BLIS, ATLAS and GSL are among the added candidate paths; and  *)
(* every added path lies at or under the overlay root of a candidate.      *)

is_prefix(p, q) == Len(p) <= Len(q) /\ SubSeq(q, 1, Len(p)) = p

\* the overlay roots of a list of paths: the prefixes that end with the last
\* 'overlay' or 'Overlay' of a path
roots_of(paths) ==
    { SubSeq(paths[k], 1, CHOOSE i \in 1..Len(paths[k]) :
                            /\ paths[k][i] \in {"overlay", "Overlay"}
                            /\ \A j \in (i + 1)..Len(paths[k]) :
                                 paths[k][j] \notin {"overlay", "Overlay"}) :
        k \in {k \in 1..Len(paths) :
                 \E i \in 1..Len(paths[k]) : paths[k][i] \in {"overlay", "Overlay"}} }

vendor_folders == { <<"mkl">>, <<"open", "blas">>, <<"blis">>, <<"atlas">>, <<"gsl">> }

\* what the step has appended to the list f
added(f) == SubSeq(ret[2][f], Len(ret[1][f]) + 1, Len(ret[2][f]))

C22_OverlayGated ==
    pc = "collected" =>
      /\ ~call.args.allow_pep518_paths => ret[2] = ret[1]
      /\ call.args.allow_pep518_paths =>
           \A R \in {roots_of(ret[1].candidate_paths)} :
             /\ \A f \in DOMAIN ret[1] : is_prefix(ret[1][f], ret[2][f])
             /\ \A A \in {Range(added("candidate_paths"))} : \A r \in R :
                  /\ r \in A
                  /\ \A v \in vendor_folders, l \in {"lib", "Lib"} :
                       r \o <<"/", l, "/">> \o v \in A
             /\ \A f \in DOMAIN ret[1] : \A A \in {added(f)} : \A k \in 1..Len(A) :
                  \E r \in R : is_prefix(r, A[k])

C22_Witness ==
    /\ pc = "collected"
    /\ call.args.allow_pep518_paths
    /\ call.args.candidate_paths =
         << <<"/", "home", "/", "overlay", "_user", "/", "lib">>,
            <<"/", "opt", "/", "OVERLAY", "/", "lib">> >>
    /\ <<"/", "home", "/", "overlay", "/", "lib", "/", "mkl">>
         \in Range(added("candidate_paths"))
    /\ ret[2].system_include_paths # ret[1].system_include_paths

----------------------------------------------------------------------------
(* C23.  The two strategies of _find_symbols are equivalent: whenever the  *)
(* readelf fallback classifies a file, it returns the found value and the  *)
(* set of flags that the structured ELF strategy returns for the same      *)
(* symbol table (two vendor fingerprints in any order, the upper-case DDOT *)
(* alone, a symbol that merely contains 'openblas', no BLAS symbol).       *)

\* the file was classified by the readelf fallback
by_readelf(bin) == bin.elf = "raise" /\ bin.readelf = "ok"

C23_StrategiesEquivalent ==
    \A k \in 1..Len(inspected) :
      by_readelf(inspected[k].bin) =>
        /\ inspected[k].res[1] = elf_symbols(inspected[k].bin.syms)[1]
        /\ Range(inspected[k].res[2]) = Range(elf_symbols(inspected[k].bin.syms)[2])

----------------------------------------------------------------------------
(* C24.  Generic classification by the structured strategy, for a symbol   *)
(* table without vendor fingerprint: NO_CBLAS is in the flags exactly when *)
(* a generic entry point (ddot_, ddot or DDOT) is present and cblas_ddot   *)
(* is absent; HAS_UNDERSCORES is in the flags when ddot_ is present        *)
(* without cblas_ddot; cblas_ddot alone gives the empty list of flags; a   *)
(* table with none of these symbols gives flags = None.                    *)

\* the file was classified by the structured strategy
by_elf(bin) == bin.elf = "ok"

no_fingerprint(bin) ==
    ~has_symbol(bin, sym_openblas) /\ ~has_symbol(bin, sym_blis) /\ ~has_symbol(bin, sym_mkl)

generic_entry_points == {sym_ddot_, sym_ddot, sym_DDOT}

C24_GenericClassification ==
    \A k \in 1..Len(inspected) :
      LET b == inspected[k].bin
          flags == inspected[k].res[2]
          entry == \E g \in generic_entry_points : has_symbol(b, g)
          cblas == has_symbol(b, sym_cblas_ddot)
      IN  (by_elf(b) /\ no_fingerprint(b)) =>
            /\ inspected[k].res[1]
            /\ "NO_CBLAS" \in Range(flags) <=> (entry /\ ~cblas)
            /\ (has_symbol(b, sym_ddot_) /\ ~cblas) => "HAS_UNDERSCORES" \in Range(flags)
            /\ (cblas /\ ~entry) => flags = <<>>
            /\ (~cblas /\ ~entry) <=> flags = NoFlags

C24_Witness ==
    /\ pc = "classified"
    /\ by_elf(inspected[1].bin)
    /\ inspected[1].bin.syms = <<sym_cblas_ddot, sym_other, sym_ddot_>>
    /\ inspected[1].res = <<TRUE, <<"HAS_UNDERSCORES">> >>

----------------------------------------------------------------------------
(* search_incl_kwds on its own: one call with a list of directories, a     *)
(* list of header names and a list of keywords, on header files that hold  *)
(* a keyword, hold none, or cannot be opened.                              *)

\* lines 1108-1113: the files open() is called on, in order: those that exist
\* among the visited ones, up to the first that matches or that cannot be opened
incl_opened(env, paths, names, keywords) ==
    LET pairs == incl_pairs(paths, names)
        at(k) == join(pairs[k].path, pairs[k].name)
        E == {k \in 1..Len(pairs) : hdr_lookup(env, at(k)) # {}}
        S == {k \in E : \E h \in hdr_lookup(env, at(k)) :
                           ~h.readable \/ hdr_matches(h, keywords)}
        last == IF S = {} THEN Len(pairs) ELSE Min(S)
    IN  [i \in 1..Cardinality({k \in E : k <= last}) |->
            at(CHOOSE k \in E : k <= last /\ Cardinality({j \in E : j <= k}) = i)]

\* at most this many header files exist
MaxHeaders == 2

usr_local_include == <<"/", "usr", "/", "local", "/", "include">>

InclPathLists == { <<usr_include, usr_local_include>>, <<usr_local_include, usr_include>>,
                   <<usr_include>> }

InclNameLists == { incl_generic_name, incl_openblas_name \o incl_generic_name,
                   <<incl_generic_name[2], incl_generic_name[1]>> }

InclKeywords == { <<kw_openblas>>, <<kw_blis, kw_amd_blis>>, <<kw_cblas, kw_CBLAS, kw_ddot>> }

\* what a header file may hold
HeaderContents ==
    { [lines |-> hdr_cblas_openblas.lines, readable |-> TRUE],
      [lines |-> hdr_blas_fortran.lines, readable |-> TRUE],
      [lines |-> hdr_cblas_empty.lines, readable |-> TRUE],
      [lines |-> {}, readable |-> FALSE] }

HeaderUniverse ==
    { [file |-> join(d, n), lines |-> c.lines, readable |-> c.readable] :
        d \in {usr_include, usr_local_include},
        n \in Range(incl_openblas_name \o incl_generic_name),
        c \in HeaderContents }

\* a path names one file
HeaderSets ==
    { env \in SubsetsUpTo(HeaderUniverse, MaxHeaders) :
        \A g, h \in env : g.file = h.file => g = h }

InitIncl ==
    /\ platform = "linux"
    /\ allow_unidentified_blas = TRUE
    /\ fs = {}
    /\ pc = "headers"
    /\ blas_path = None
    /\ blas_file = None
    /\ flags_found = <<>>
    /\ searched = <<>>
    /\ inspected = <<>>
    /\ cand = <<>>
    /\ ci = 0
    /\ prompts = <<>>
    /\ np_env = np_env_unset
    /\ incl_path = None
    /\ incl_file = None
    /\ hdr_env \in HeaderSets
    /\ raised = no_exception
    /\ call \in {[fn |-> "search_incl_kwds", args |-> a] :
                    a \in [search_paths : InclPathLists, blas_names : InclNameLists,
                           keywords : InclKeywords]}
    /\ ret = <<>>

\* incl_path, incl_file = search_incl_kwds(search_paths, blas_names, keywords)
SearchInclKwds ==
    /\ pc = "headers"
    /\ ret' = [res |-> search_incl_kwds(hdr_env, call.args.search_paths,
                                        call.args.blas_names, call.args.keywords),
               opened |-> incl_opened(hdr_env, call.args.search_paths,
                                      call.args.blas_names, call.args.keywords)]
    /\ pc' = "resolved"
    /\ UNCHANGED <<call, find_blas_state>>

NextIncl == SearchInclKwds

SpecIncl == InitIncl /\ [][NextIncl]_vars

----------------------------------------------------------------------------
(* C25.  When search_incl_kwds returns, it returns the first header, taking *)
(* the names in the caller's order and for each name the directories in    *)
(* order, that exists and has a line holding one of the keywords; existing *)
(* headers without keyword are opened, skipped, and the scan goes on; the  *)
(* matching header is the last file opened; and the result is (None, None) *)
(* when no file matches.                                                   *)

\* the header file at a path, as a set (empty when there is none)
header_at(p) == {h \in hdr_env : h.file = p}

\* the header exists, opens, and one of its lines holds one of the keywords
matching(p) ==
    \E h \in header_at(p) :
       /\ h.readable
       /\ \E ln \in h.lines : \E k \in 1..Len(call.args.keywords) :
            HasSub(ln, call.args.keywords[k])

\* (name i, directory j) is visited before (name k, directory l)
earlier(i, j, k, l) == i < k \/ (i = k /\ j < l)

----------------------------------------------------------------------------
(* C26.  In the name-pattern scan, a candidate file whose classification   *)
(* gave no flags (flags = None) is resolved by allow_unidentified_blas:    *)
(* with True the user is asked about that file, with False the file is     *)
(* rejected; and this holds both when the file could not be inspected and  *)
(* when it was inspected and no known symbol was found.                    *)

\* _find_symbols has returned flags = None for candidate i, with found = fnd
classified_none(i, fnd) ==
    \E k \in 1..Len(inspected) :
       /\ inspected[k].path = cand[i].path
       /\ inspected[k].file = cand[i].file
       /\ inspected[k].res = <<fnd, NoFlags>>

\* input() was called for candidate i
asked(i) ==
    \/ pc = "prompt" /\ ci = i
    \/ \E k \in 1..Len(prompts) :
          prompts[k].path = cand[i].path /\ prompts[k].file = cand[i].file

\* candidate i is not the library of find_blas
not_taken(i) == ~(blas_path = cand[i].path /\ blas_file = cand[i].file)

past_inspection(i) == i < ci \/ (i = ci /\ pc # "check")

----------------------------------------------------------------------------
(* C27.  Header resolution is per vendor: for the identified vendor, the   *)
(* header search scans that vendor's own header names, then the generic    *)
(* names, under that vendor's own include paths and the library-derived    *)
(* and system include directories.  In particular, for a BLIS library,    *)
(* with a blis.h that names blis in a BLIS include path and a reference    *)
(* cblas.h in /usr/include, find_blas returns that blis.h.                 *)

\* the per-vendor lists of find_blas, by identity flag
vendor_incl ==
    [f \in VendorFlags |->
        CASE f = "HAS_MKL"      -> [names |-> incl_mkl_name, paths |-> mkl_include_paths]
          [] f = "HAS_OPENBLAS" -> [names |-> incl_openblas_name,
                                    paths |-> openblas_include_paths]
          [] f = "HAS_BLIS"     -> [names |-> incl_blis_name, paths |-> blis_include_paths]
          [] f = "HAS_ATLAS"    -> [names |-> incl_atlas_name, paths |-> atlas_include_paths]
          [] OTHER              -> [names |-> incl_gsl_name, paths |-> gsl_include_paths]]

\* the identity flag whose branch header resolution takes
branch_flag ==
    CHOOSE f \in VendorFlags :
       /\ InFlags(f)
       /\ \A g \in VendorFlags :
            (InFlags(g) /\ g # f) =>
               \E i, j \in 1..Len(VendorOrder) :
                  i < j /\ IdentityFlag[VendorOrder[i]] = f /\ IdentityFlag[VendorOrder[j]] = g

C27_HeadersPerVendor ==
    /\ (pc = "header" /\ \E f \in VendorFlags : InFlags(f)) =>
          /\ header_branch.names = vendor_incl[branch_flag].names \o incl_generic_name
          /\ \A k \in 1..Len(vendor_incl[branch_flag].paths) :
                normalize_path(vendor_incl[branch_flag].paths[k])
                   \in Range(header_branch.paths)
    /\ (pc = "done" /\ InFlags("HAS_BLIS") /\ ~InFlags("HAS_MKL") /\ ~InFlags("HAS_OPENBLAS")
        /\ hdr_blis \in hdr_env /\ hdr_cblas_ref \in hdr_env) =>
          /\ incl_file = incl_blis_name[1]
          /\ incl_path = blis_include_paths[1]

----------------------------------------------------------------------------
(* C28.  The fixed POSIX locations depend on the width of the process in   *)
(* the same way for libraries and headers: in a 64-bit process the         *)
(* candidate library paths hold /usr/lib/x86_64-linux-gnu and the system   *)
(* include paths hold /usr/include/x86_64-linux-gnu; and /usr/include,     *)
(* /usr/local/include and /opt/local/include are in the system include     *)
(* paths whatever the width.                                               *)

multiarch_64 == <<"x86", "_", "64", "-linux-gnu">>

C28_WidthConsistent ==
    pc \in {"overlay", "collected"} =>
      /\ call.args.bits = "64bit" =>
           /\ <<"/", "usr", "/", "lib", "/">> \o multiarch_64
                 \in Range(ret[1].candidate_paths)
           /\ <<"/", "usr", "/", "include", "/">> \o multiarch_64
                 \in Range(ret[1].system_include_paths)
      /\ { <<"/", "usr", "/", "include">>, <<"/", "usr", "/", "local", "/", "include">>,
           <<"/", "opt", "/", "local", "/", "include">> }
            \subseteq Range(ret[1].system_include_paths)

----------------------------------------------------------------------------
(* C29.  The flags find_blas returns behave as a set: no flag occurs more  *)
(* than once in the returned list, on any path through the search, the     *)
(* path where the user confirms an unidentified file in the name-pattern   *)
(* scan included.                                                          *)

C29_FlagsAreASet ==
    returned =>
      \A k, l \in 1..Len(flags_found) : k # l => flags_found[k] # flags_found[l]


\* apart from that path no flag is repeated
C29_OnlyUnknownRepeated ==
    returned =>
      \A k, l \in 1..Len(flags_found) :
         (k # l /\ flags_found[k] = flags_found[l]) =>
            /\ flags_found = <<"UNKNWON_BLAS", "UNKNWON_BLAS">>
            /\ prompts[Len(prompts)].answer = "y"

----------------------------------------------------------------------------
(* C30.  Shape of a normal return of find_blas: blas_path and blas_file    *)
(* are both set; incl_path is None exactly when incl_file is None; and a   *)
(* failed header search is not an error: when a library was found and no   *)
(* header matches, find_blas returns, with incl_path = incl_file = None,   *)
(* the library unchanged by the header stage and the flags unchanged but   *)
(* for the possible addition of UNKNWON_BLAS.                              *)

return_shape ==
    /\ blas_path # None
    /\ blas_file # None
    /\ incl_path = None <=> incl_file = None

\* h is one of the files the branch b of header resolution looks for
visited(h, b) ==
    \E i \in 1..Len(b.paths), j \in 1..Len(b.names) : h.file = join(b.paths[i], b.names[j])

\* none of the headers of env that the branch b looks for holds a keyword of b
no_header_matches(env, b) ==
    \A h \in env : visited(h, b) => ~(h.readable /\ hdr_matches(h, b.kwds))

header_stage_keeps ==
    /\ UNCHANGED <<blas_path, blas_file>>
    /\ flags_found' \in {flags_found, Append(flags_found, "UNKNWON_BLAS")}

C30_ReturnShape ==
    [][/\ pc' = "done" => return_shape'
       /\ pc = "header" =>
            /\ header_stage_keeps
            /\ no_header_matches(hdr_env', header_branch) =>
                 pc' = "done" /\ incl_path' = None /\ incl_file' = None]_vars

\* the same, for the header stages in which open() raises nothing
C30_ReturnShapeWhenHeadersOpen ==
    [][/\ pc' = "done" => return_shape'
       /\ pc = "header" =>
            /\ header_stage_keeps
            /\ (no_header_matches(hdr_env', header_branch)
                /\ \A h \in hdr_env' : visited(h, header_branch) => h.readable) =>
                 pc' = "done" /\ incl_path' = None /\ incl_file' = None]_vars

====
